---- MODULE Spec2Model ----
(***************************************************************************)
(* A model of the Purdue Macro Finder engine (meal_finder_engine.py):      *)
(* the menu loader and its date handling, the scoring function, the        *)
(* simulated-annealing optimizer and the cross-court selection of          *)
(* find_best_meal.                                                         *)
(*                                                                         *)
(* Quantities.  Every macro quantity (protein, carbohydrate, fat, targets) *)
(* is an integer number of tenths of a gram, so the label "4.5g" is 45.    *)
(* A score is represented by ScoreScale times its square: the code returns *)
(* the square root of a weighted sum of squares, the square root is        *)
(* strictly increasing on the non-negative reals, so score order, score    *)
(* equality, score = 0 and score > 0 are the same on the squares.  Inf     *)
(* stands for float('inf').                                                *)
(***************************************************************************)
EXTENDS Integers, Sequences, FiniteSets, TLC

(***************************************************************************)
(* Bounds of the model.                                                    *)
(***************************************************************************)
\* The annealing loop is explored for at most MaxIter iterations per run
\* (the code's budget is ITERATIONS).
MaxIter == 2
\* Calendar dates are 1..MaxDate.
MaxDate == 2
\* ScoreSpec: a plan has at most MaxPlanLen items.
MaxPlanLen == 3
\* FilterSpec: an item collection has at most MaxListLen items.
MaxListLen == 2
\* GetEngineSpec: the threads that call get_engine.
NumCallers == 3
\* NumericSpec: a generated label has at most MaxLabelLen characters.
MaxLabelLen == 3
\* TopSpec: the store has at most MaxStoreLen items.
MaxStoreLen == 3

(***************************************************************************)
(* Config (config.py).                                                     *)
(***************************************************************************)
ITERATIONS == 3000
INITIAL_TEMP == 10000
MIN_ITEMS == 2
MAX_ITEMS == 5
INITIAL_ITEMS == 4
\* COOLING_RATE = 0.99 as a fraction.
COOLING_NUM == 99
COOLING_DEN == 100
\* WEIGHTS = {'p': 3.0, 'c': 1.0, 'f': 1.5}, stored times 2.
WEIGHTS == [p |-> 6, c |-> 2, f |-> 3]
\* PENALTIES = {'under_p': 2, 'over_c': 1.2, 'over_f': 3}, stored times 5.
PENALTIES == [under_p |-> 10, over_c |-> 6, over_f |-> 15]
\* An unpenalised error is multiplied by 1, stored times 5 like PENALTIES.
PenaltyUnit == 5
\* Scores are stored as ScoreScale * score^2: 2 (weights) * 5^2 (penalties).
ScoreScale == 2 * PenaltyUnit * PenaltyUnit
RETRY_DELAY_MIN == 5
RETRY_DELAY_MAX == 15
AI_MAX_WORKERS == 4
\* The dining courts of the model: two of Config.DINING_COURTS, in its order.
DINING_COURTS == <<"Wiley", "Earhart">>
MEAL_PERIODS == {"Lunch", "Dinner"}

\* None is the empty tuple: no list, dict or record of the model that may be
\* None is ever empty (a solution has items, a payload is a record), and the
\* code treats a None label like an empty one (if not label_str).
None == <<>>
\* The empty dict {}.
EmptyDict == [k \in {} |-> 0]
\* float('inf'); finite scores are >= 0.
Inf == 0 - 1
\* float() raising ValueError; parsed values are >= 0.
ValueError == 0 - 2

Range(s) == {s[i] : i \in DOMAIN s}
Min(a, b) == IF a < b THEN a ELSE b

(***************************************************************************)
(* The remote menu source.  A payload is the dailyMenu of one court: a     *)
(* sequence of meals, each with its item appearances (stations are         *)
(* flattened: the loader only iterates through them).  A label is a        *)
(* sequence of characters, or None.                                        *)
(***************************************************************************)
Fact(n, l) == [name |-> n, label |-> l]
Appearance(dn, pl, cl, fl, tr) ==
    [displayName |-> dn,
     nutritionFacts |-> <<Fact("Serving Size", <<"1">>), Fact("Protein", pl),
                          Fact("Total Carbohydrate", cl), Fact("Total fat", fl)>>,
     traits |-> tr]

Tofu == Appearance("Tofu", <<"6", "g">>, <<"2", "g">>, <<"1", "g">>, <<"Vegan", "Vegetarian">>)
Pasta == Appearance("Pasta", <<"2", "g">>, <<"8", "g">>, <<"1", "g">>, <<"Vegetarian", "Contains Gluten">>)
Water == Appearance("Water", <<"0", "g">>, <<"0", "g">>, None, <<"Vegan", "Vegetarian">>)
Chicken == Appearance("Chicken", <<"9", "g">>, <<"N", "/", "A">>, <<"2", ".", "5", "g">>, <<>>)
Omelet == Appearance("Omelet", <<"6", "g">>, <<"2", "g">>, <<"1", ".", "0", "g">>, <<"Vegetarian", "Eggs">>)
PBToast == Appearance("PB Toast", <<"2", "g">>, <<"8", "g">>, <<"1", "g">>, <<"Vegan", "Vegetarian", "Peanuts">>)
Steak == Appearance("Steak", <<"8", "g">>, <<"0", "g">>, <<"4", "g">>, <<>>)
Fries == Appearance("Fries", <<"1", "g">>, <<"7", "g">>, <<"3", "g">>, <<"Vegan", "Vegetarian">>)
Cake == Appearance("Cake", <<"1", "g">>, <<"9", "g">>, <<"3", "g">>, <<"Vegetarian", "Contains Gluten", "Eggs">>)
Rice == Appearance("Rice", <<"1", "g">>, <<"9", "g">>, <<>>, <<"Vegan", "Vegetarian">>)

\* What the menu source answers for a court on a date, when the call succeeds.
RemoteMenu(court, date) ==
    [meals |->
        IF date = 1
        THEN IF court = "Wiley"
             THEN <<[name |-> "Lunch", items |-> <<Tofu, Pasta, Water>>],
                    [name |-> "Dinner", items |-> <<Chicken, Steak, Fries, Cake>>]>>
             ELSE <<[name |-> "Lunch", items |-> <<Omelet, PBToast>>]>>
        ELSE IF court = "Wiley"
             THEN <<[name |-> "Lunch", items |-> <<Tofu, Rice>>]>>
             ELSE <<[name |-> "Dinner", items |-> <<Chicken>>]>>]

\* The shapes of payload the source may answer with.  Apart from the
\* well-formed one: the JSON of an error with no 'data' key; a dailyMenu
\* without 'meals'; and, in the last meal of the menu, a meal without
\* 'stations', or a last item with a nutrition fact without 'name', without
\* 'displayName', or with a fat label that is no number.
WellFormed == "well_formed"
PayloadShapes ==
    {WellFormed, "no_data", "no_meals", "no_stations", "no_fact_name", "no_display_name",
     "bad_label"}

ReplaceLast(seq, x) == [i \in DOMAIN seq |-> IF i = Len(seq) THEN x ELSE seq[i]]

Shaped(payload, shape) ==
    LET meals == payload.meals
        meal == meals[Len(meals)]
        app == meal.items[Len(meal.items)]
        WithItem(a) ==
            [meals |-> ReplaceLast(meals, [name |-> meal.name,
                                           items |-> ReplaceLast(meal.items, a)])]
    IN CASE shape = "no_data" -> [errors |-> "Bad Request"]
         [] shape = "no_meals" -> [date |-> "unknown"]
         [] shape = "no_stations" -> [meals |-> ReplaceLast(meals, [name |-> meal.name])]
         [] shape = "no_fact_name" ->
                WithItem([app EXCEPT !.nutritionFacts = ReplaceLast(@, [label |-> <<"1", "g">>])])
         [] shape = "no_display_name" ->
                WithItem([nutritionFacts |-> app.nutritionFacts, traits |-> app.traits])
         [] shape = "bad_label" ->
                WithItem([app EXCEPT !.nutritionFacts =
                              ReplaceLast(@, Fact("Total fat", <<"1", ".", "2", ".", "3", "g">>))])
         [] OTHER -> payload

(***************************************************************************)
(* _get_numeric_value: re.search(r'[\d.]+', label) and float() of the      *)
(* match.  The value is in tenths; ValueError is float() raising.          *)
(***************************************************************************)
Digits == {"0", "1", "2", "3", "4", "5", "6", "7", "8", "9"}
DigitVal(ch) == CHOOSE n \in 0..9 : ch = <<"0", "1", "2", "3", "4", "5", "6", "7", "8", "9">>[n + 1]
IsNumChar(ch) == ch \in Digits \cup {"."}

\* The first maximal run of digits and dots of s, or <<>>.
RECURSIVE TakeRun(_, _)
TakeRun(s, i) ==
    IF i > Len(s) \/ ~IsNumChar(s[i]) THEN <<>> ELSE <<s[i]>> \o TakeRun(s, i + 1)
RECURSIVE FirstRun(_, _)
FirstRun(s, i) ==
    IF i > Len(s) THEN <<>>
    ELSE IF IsNumChar(s[i]) THEN TakeRun(s, i) ELSE FirstRun(s, i + 1)

RECURSIVE DigitsValue(_)
DigitsValue(ds) ==
    IF ds = <<>> THEN 0
    ELSE 10 * DigitsValue(SubSeq(ds, 1, Len(ds) - 1)) + DigitVal(ds[Len(ds)])

\* float(run) for a run of digits and dots, in tenths (digits after the first
\* decimal place do not occur in the labels of the model).
FloatOf(run) ==
    LET dots == {i \in DOMAIN run : run[i] = "."} IN
    IF Cardinality(dots) > 1 \/ Cardinality(dots) = Len(run) THEN ValueError
    ELSE IF dots = {} THEN 10 * DigitsValue(run)
    ELSE LET d == CHOOSE i \in dots : TRUE
             frac == SubSeq(run, d + 1, Len(run))
         IN 10 * DigitsValue(SubSeq(run, 1, d - 1))
            + (IF frac = <<>> THEN 0 ELSE DigitVal(frac[1]))

_get_numeric_value(label_str) ==
    IF label_str = None THEN 0
    ELSE LET numeric_part == FirstRun(label_str, 1) IN
         IF numeric_part = <<>> THEN 0 ELSE FloatOf(numeric_part)

(***************************************************************************)
(* _calculate_score.                                                       *)
(***************************************************************************)
RECURSIVE SumOf(_, _)
SumOf(meal_plan, macro) ==
    IF meal_plan = <<>> THEN 0
    ELSE meal_plan[1][macro] + SumOf(Tail(meal_plan), macro)

\* Variant: the sums leave out the first item of the plan.
TotalsOfTail(meal_plan) ==
    [p |-> SumOf(Tail(meal_plan), "p"), c |-> SumOf(Tail(meal_plan), "c"),
     f |-> SumOf(Tail(meal_plan), "f")]

Totals(meal_plan) ==
    [p |-> SumOf(meal_plan, "p"), c |-> SumOf(meal_plan, "c"), f |-> SumOf(meal_plan, "f")]

\* Variants: the under-protein multiplier is not applied; every error is
\* multiplied by its penalty, whatever its sign.
PenalisedErrorsFlat(totals, targets, penalties) ==
    [p |-> (totals.p - targets.p) * PenaltyUnit,
     c |-> IF totals.c > targets.c THEN (totals.c - targets.c) * penalties.over_c
           ELSE (totals.c - targets.c) * PenaltyUnit,
     f |-> IF totals.f > targets.f THEN (totals.f - targets.f) * penalties.over_f
           ELSE (totals.f - targets.f) * PenaltyUnit]
PenalisedErrorsSymmetric(totals, targets, penalties) ==
    [p |-> (totals.p - targets.p) * penalties.under_p,
     c |-> (totals.c - targets.c) * penalties.over_c,
     f |-> (totals.f - targets.f) * penalties.over_f]

\* Variant: a protein deficit is not counted as an error.
PenalisedErrorsNoDeficit(totals, targets, penalties) ==
    LET ep == totals.p - targets.p
        ec == totals.c - targets.c
        ef == totals.f - targets.f
    IN [p |-> IF ep < 0 THEN 0 ELSE ep * PenaltyUnit,
        c |-> IF ec > 0 THEN ec * penalties.over_c ELSE ec * PenaltyUnit,
        f |-> IF ef > 0 THEN ef * penalties.over_f ELSE ef * PenaltyUnit]

\* errors after "Apply penalties", times 5.
PenalisedErrors(totals, targets, penalties) ==
    LET ep == totals.p - targets.p
        ec == totals.c - targets.c
        ef == totals.f - targets.f
    IN [p |-> IF ep < 0 THEN ep * penalties.under_p ELSE ep * PenaltyUnit,
        c |-> IF ec > 0 THEN ec * penalties.over_c ELSE ec * PenaltyUnit,
        f |-> IF ef > 0 THEN ef * penalties.over_f ELSE ef * PenaltyUnit]

\* Variant: no special case for the empty plan.
CalculateScoreUnguarded(meal_plan, targets, weights, penalties) ==
    LET totals == Totals(meal_plan)
        errors == PenalisedErrors(totals, targets, penalties)
    IN [score |-> weights.p * (errors.p * errors.p)
                  + weights.c * (errors.c * errors.c)
                  + weights.f * (errors.f * errors.f),
        totals |-> totals]

_calculate_score(meal_plan, targets, weights, penalties) ==
    IF meal_plan = <<>> THEN [score |-> Inf, totals |-> EmptyDict]
    ELSE LET totals == Totals(meal_plan)
             errors == PenalisedErrors(totals, targets, penalties)
         IN [score |-> weights.p * (errors.p * errors.p)
                       + weights.c * (errors.c * errors.c)
                       + weights.f * (errors.f * errors.f),
             totals |-> totals]

\* a < b on scores, float('inf') included.
ScoreLess(a, b) == a # Inf /\ (b = Inf \/ a < b)

(***************************************************************************)
(* Python dicts are functions; d.get(k) is None for a missing key.         *)
(***************************************************************************)
Get(d, k) == IF k \in DOMAIN d THEN d[k] ELSE None
Put(d, k, v) == [x \in DOMAIN d \cup {k} |-> IF x = k THEN v ELSE d[x]]

(***************************************************************************)
(* State.                                                                  *)
(***************************************************************************)
\* Caller is a thread that calls _load_all_menu_data or _ensure_current_date
\* directly.
Threads == {"MenuLoader", "Request", "AIPreloader", "Caller"}
Dates == 1..MaxDate

VARIABLES
    clock,                \* datetime.now(), as a date
    menu_disk,            \* the menu cache files: date -> (court -> payload)
    todays_date, cache_file, ai_cache_file,
    master_item_list, data_loaded, items_by_court, items_by_meal,
    pc,                   \* thread -> its position
    \* locals of _load_all_menu_data, per calling thread
    cached_data, needs_to_save_cache, fetched, court_idx,
    menu_calls,           \* history: thread -> the courts its latest load called the source for
    menu_saved,           \* history: thread -> whether its latest load wrote the cache file
    \* find_best_meal, run by the Request thread: its arguments and locals
    request, filtered_master_list, available_courts,
    overall_best_solution, overall_best_score,
    visited,              \* history: the optimizer runs of this call, in order
    find_loaded,          \* history: data_loaded as line 594 read it
    find_ret,             \* what the last find_best_meal returned
    \* locals of _run_optimization_for_court
    run_court, available_items, current_solution,
    best_solution, best_score, best_totals, temp, iter,
    top_call,             \* the last get_top_protein_foods call and its result
    \* ScoreSpec: the arguments and the result of one _calculate_score call
    score_plan, score_targets, score_ret,
    \* PenaltySpec: two penalties arguments and the two results for score_plan
    penalties_a, penalties_b, score_a, score_b,
    \* FilterSpec: a collection, the active filters, the collection after one
    \* and after two passes of the dietary filter, and the passes done
    filter_items, filter_flags, filter_once, filter_twice, filter_runs,
    api_key,              \* whether GEMINI_API_KEY is set
    remote_shapes,        \* the shapes of payload the menu source answers with
    \* NumericSpec: the argument of one _get_numeric_value call and, once it
    \* has run, the record of its value
    label_str, numeric_ret,
    ensure_call,          \* history: the last direct call of _ensure_current_date
    \* app.py: the module's engine and its lock; then, per thread that calls
    \* get_engine, its position and what it was returned; the MealFinder()
    \* constructions and the start_background_loaders() calls so far
    meal_finder_engine, engine_lock, caller_pc, caller_ret, constructed, started,
    \* FetchSpec: the arguments of one _fetch_ai_suggestion_from_api call and
    \* its attempts so far, the retry included
    fetch_court, fetch_meal, fetch_trace,
    ai_suggestions_cache, \* (court, meal) -> a result, an error or the placeholder
    cache_lock,           \* "free", or the thread inside "with self.cache_lock"
    ai_files, ai_disk,    \* the AI cache files: the dates with a file, date -> content
    \* get_ai_suggestion, run by the Request thread: cache_key (None when no
    \* call is running) and suggestion
    ai_key, ai_suggestion,
    \* locals of _background_preloader_task; tasks is the state of the
    \* _preload_worker call of each job marked so far
    jobs_set, missing_jobs, tasks,
    ai_cached_on,         \* history: key -> the date on which the entry was written
    ai_call,              \* history: the last get_ai_suggestion call
    ai_completed,         \* history: the keys a get_ai_suggestion call stored
    lock_breach           \* history: an access to the cache outside the lock

engineVars == <<todays_date, cache_file, ai_cache_file, master_item_list,
                data_loaded, items_by_court, items_by_meal>>
loadVars == <<cached_data, needs_to_save_cache, fetched, court_idx, menu_calls, menu_saved>>
findVars == <<request, filtered_master_list, available_courts,
              overall_best_solution, overall_best_score, visited, find_loaded, find_ret>>
optVars == <<run_court, available_items, current_solution,
             best_solution, best_score, best_totals, temp, iter>>
scoreVars == <<score_plan, score_targets, score_ret>>
penaltyVars == <<penalties_a, penalties_b, score_a, score_b>>
filterVars == <<filter_items, filter_flags, filter_once, filter_twice, filter_runs>>
fetchVars == <<fetch_court, fetch_meal, fetch_trace>>
pureVars == <<penaltyVars, filterVars, fetchVars>>
aiVars == <<ai_suggestions_cache, cache_lock, ai_files, ai_disk, ai_key, ai_suggestion,
           jobs_set, missing_jobs, tasks, ai_cached_on, ai_call, ai_completed,
           lock_breach>>
appVars == <<meal_finder_engine, engine_lock, caller_pc, caller_ret, constructed, started>>
hostVars == <<api_key, remote_shapes, label_str, numeric_ret, ensure_call, appVars>>
auxVars == <<top_call, scoreVars, pureVars, hostVars, aiVars>>
vars == <<clock, menu_disk, engineVars, pc, loadVars, findVars, optVars, auxVars>>

(***************************************************************************)
(* Parsing of one court's payload (lines 201-242).                         *)
(***************************************************************************)
\* The (meal name, item appearance) pairs of a dailyMenu, in loop order.
RECURSIVE Appearances(_)
Appearances(meals) ==
    IF meals = <<>> THEN <<>>
    ELSE [i \in 1..Len(meals[1].items) |->
              [meal |-> meals[1].name, app |-> meals[1].items[i]]]
         \o Appearances(Tail(meals))

\* The value the fact loop leaves for a name: the last fact with that name wins.
RECURSIVE FactLabel(_, _)
FactLabel(facts, name) ==
    IF facts = <<>> THEN None
    ELSE LET f == facts[Len(facts)] IN
         IF f.name = name THEN f.label
         ELSE FactLabel(SubSeq(facts, 1, Len(facts) - 1), name)

\* macros[name]: 0 unless a fact has the name (a None label parses to 0 too).
MacroValue(facts, name) == _get_numeric_value(FactLabel(facts, name))

\* Variant: every item with nutrition facts is kept.
HasNutritionAlways(p, c, f) == TRUE

\* Line 226: "if sum(macros.values()) > 0".
HasNutrition(p, c, f) == p + c + f > 0

\* The items a list of appearances appends, in order; raised when an exception
\* ends the loop on the way: KeyError for a fact without 'name' (line 219) or
\* an appended item without 'displayName' (line 234), ValueError of float().
RECURSIVE ParseAppearances(_, _)
ParseAppearances(apps, court) ==
    IF apps = <<>> THEN [items |-> <<>>, raised |-> FALSE]
    ELSE LET a == apps[1].app
             facts == a.nutritionFacts
             p == MacroValue(facts, "Protein")
             c == MacroValue(facts, "Total Carbohydrate")
             f == MacroValue(facts, "Total fat")
         IN IF facts = <<>> THEN ParseAppearances(Tail(apps), court)
            ELSE IF \E i \in DOMAIN facts : "name" \notin DOMAIN facts[i]
            THEN [items |-> <<>>, raised |-> TRUE]
            ELSE IF ValueError \in {p, c, f} THEN [items |-> <<>>, raised |-> TRUE]
            ELSE IF HasNutrition(p, c, f) /\ "displayName" \notin DOMAIN a
            THEN [items |-> <<>>, raised |-> TRUE]
            ELSE LET rest == ParseAppearances(Tail(apps), court)
                     item == [name |-> a.displayName, p |-> p, c |-> c, f |-> f,
                              court |-> court, meal_name |-> apps[1].meal,
                              traits |-> Range(a.traits),
                              serving_size |-> FactLabel(facts, "Serving Size")]
                 IN IF HasNutrition(p, c, f)
                    THEN [items |-> <<item>> \o rest.items, raised |-> rest.raised]
                    ELSE rest

\* Lines 204-242: the meals of a dailyMenu in order; a meal without 'stations'
\* raises KeyError (line 205) after the meals before it were parsed.
RECURSIVE ParseMeals(_, _)
ParseMeals(meals, court) ==
    IF meals = <<>> THEN [items |-> <<>>, raised |-> FALSE]
    ELSE IF "items" \notin DOMAIN meals[1] THEN [items |-> <<>>, raised |-> TRUE]
    ELSE LET first == ParseAppearances(Appearances(<<meals[1]>>), court) IN
         IF first.raised THEN first
         ELSE LET rest == ParseMeals(Tail(meals), court)
              IN [items |-> first.items \o rest.items, raised |-> rest.raised]

\* Variant: a court without a payload ends the load.
ParsePayloadStrict(menu_data, court) ==
    IF menu_data = None THEN [items |-> <<>>, raised |-> TRUE]
    ELSE IF "errors" \in DOMAIN menu_data THEN [items |-> <<>>, raised |-> FALSE]
    ELSE IF "meals" \notin DOMAIN menu_data THEN [items |-> <<>>, raised |-> TRUE]
    ELSE ParseMeals(menu_data.meals, court)

\* Lines 201-242 for one court: nothing for a court without payload (None)
\* or whose payload has no 'data'; KeyError for a dailyMenu without 'meals'.
ParsePayload(menu_data, court) ==
    IF menu_data = None THEN [items |-> <<>>, raised |-> FALSE]
    ELSE IF "errors" \in DOMAIN menu_data THEN [items |-> <<>>, raised |-> FALSE]
    ELSE IF "meals" \notin DOMAIN menu_data THEN [items |-> <<>>, raised |-> TRUE]
    ELSE ParseMeals(menu_data.meals, court)

(***************************************************************************)
(* _build_indices.                                                         *)
(***************************************************************************)
IndexBy(items, field) ==
    [k \in {items[i][field] : i \in DOMAIN items} |->
        SelectSeq(items, LAMBDA it : it[field] = k)]

(***************************************************************************)
(* _ensure_current_date, as the new engine state when the date differs.    *)
(***************************************************************************)
\* Variant: the date is never found stale.
DateIsStaleNever == FALSE

\* Line 62: self.todays_date != current_date.
DateIsStale == todays_date # clock

EnsureCurrentDate ==
    IF DateIsStale
    THEN /\ todays_date' = clock
         /\ cache_file' = clock
         /\ ai_cache_file' = clock
         /\ master_item_list' = <<>>
         /\ data_loaded' = FALSE
         /\ items_by_court' = <<>>
         /\ items_by_meal' = <<>>
    ELSE UNCHANGED engineVars

(***************************************************************************)
(* _load_all_menu_data, run by thread t.                                   *)
(***************************************************************************)
\* Where thread t continues when its call of _load_all_menu_data returns.
AfterLoad(t) ==
    IF t = "MenuLoader" THEN "done"
    ELSE IF t = "Caller" THEN "load_returned"
    ELSE IF t = "AIPreloader" THEN "pre_await"
    ELSE IF ai_key # None THEN "ai_wait"
    ELSE "find_gate"

\* Variant: the cache is never used.
ServedFromCacheNever(court, cached) == FALSE

\* Lines 119-121: the court's payload is in the cache read from disk (and is
\* not empty: "if menu_data").
ServedFromCache(court, cached) == Get(cached, court) # None

\* Variant: every load saves.
NeedsToSaveAlways(needs, was_fetched) == TRUE

\* Lines 197-199: needs_to_save_cache after one more result.
NeedsToSave(needs, was_fetched) == needs \/ was_fetched

\* Lines 165-193: the early return, the date refresh, the read of the cache
\* file and the submission of one _get_menu_data_for_court per court.  A court
\* that is not served from cached_data gets one remote call, which succeeds
\* with a payload or fails (timeout, request error).
LoadBegin(t) ==
    /\ pc[t] = "load_begin"
    /\ menu_saved' = [menu_saved EXCEPT ![t] = FALSE]
    /\ IF data_loaded /\ ~DateIsStale
       THEN /\ pc' = [pc EXCEPT ![t] = AfterLoad(t)]
            /\ menu_calls' = [menu_calls EXCEPT ![t] = <<>>]
            /\ UNCHANGED <<engineVars, cached_data, needs_to_save_cache, fetched, court_idx>>
       ELSE /\ EnsureCurrentDate
            /\ LET from_disk == menu_disk[cache_file']
                   to_fetch == {c \in Range(DINING_COURTS) : ~ServedFromCache(c, from_disk)}
               IN /\ cached_data' = [cached_data EXCEPT ![t] = from_disk]
                  /\ menu_calls' = [menu_calls EXCEPT ![t] =
                        SelectSeq(DINING_COURTS, LAMBDA c : c \in to_fetch)]
                  /\ \E ok \in SUBSET to_fetch : \E shape \in [ok -> remote_shapes] :
                        fetched' = [fetched EXCEPT ![t] =
                            [c \in ok |-> Shaped(RemoteMenu(c, todays_date'), shape[c])]]
            /\ needs_to_save_cache' = [needs_to_save_cache EXCEPT ![t] = FALSE]
            /\ court_idx' = [court_idx EXCEPT ![t] = 1]
            /\ pc' = [pc EXCEPT ![t] = "load_court"]
    /\ UNCHANGED <<auxVars, clock, menu_disk, findVars, optVars>>

\* Lines 195-242: one round of "for future in future_to_court".
LoadCourt(t) ==
    /\ pc[t] = "load_court"
    /\ court_idx[t] <= Len(DINING_COURTS)
    /\ LET court == DINING_COURTS[court_idx[t]]
           cached == Get(cached_data[t], court)
           was_fetched == cached = None /\ court \in DOMAIN fetched[t]
           menu_data == IF cached # None THEN cached ELSE Get(fetched[t], court)
           parsed == ParsePayload(menu_data, court)
       IN /\ cached_data' = [cached_data EXCEPT ![t] =
                IF was_fetched THEN Put(@, court, menu_data) ELSE @]
          /\ needs_to_save_cache' = [needs_to_save_cache EXCEPT ![t] =
                NeedsToSave(@, was_fetched)]
          /\ master_item_list' = master_item_list \o parsed.items
          /\ IF parsed.raised
             THEN /\ pc' = [pc EXCEPT ![t] = "raised"]
                  /\ UNCHANGED court_idx
             ELSE /\ court_idx' = [court_idx EXCEPT ![t] = @ + 1]
                  /\ pc' = [pc EXCEPT ![t] =
                        IF court_idx[t] = Len(DINING_COURTS) THEN "load_finish" ELSE @]
    /\ UNCHANGED <<auxVars, clock, menu_disk, todays_date, cache_file, ai_cache_file,
                   data_loaded, items_by_court, items_by_meal, fetched, menu_calls,
                   menu_saved, findVars, optVars>>

\* Lines 244-261: save the cache file if a court was fetched, build the
\* indices, mark the store loaded.
LoadFinish(t) ==
    /\ pc[t] = "load_finish"
    /\ menu_disk' = IF needs_to_save_cache[t]
                    THEN [menu_disk EXCEPT ![cache_file] = cached_data[t]]
                    ELSE menu_disk
    /\ menu_saved' = [menu_saved EXCEPT ![t] = needs_to_save_cache[t]]
    /\ items_by_court' = IndexBy(master_item_list, "court")
    /\ items_by_meal' = IndexBy(master_item_list, "meal_name")
    /\ data_loaded' = TRUE
    /\ pc' = [pc EXCEPT ![t] = AfterLoad(t)]
    /\ UNCHANGED <<auxVars, clock, todays_date, cache_file, ai_cache_file, master_item_list,
                   cached_data, needs_to_save_cache, fetched, court_idx, menu_calls,
                   findVars, optVars>>

\* The calendar date advances.
Tick ==
    /\ clock < MaxDate
    /\ clock' = clock + 1
    /\ UNCHANGED <<auxVars, menu_disk, engineVars, pc, loadVars, findVars, optVars>>

(***************************************************************************)
(* _run_optimization_for_court.                                            *)
(***************************************************************************)
\* Temperatures are kept in units of 1/TempScale.
TempScale == 10000
\* Variant: the temperature is not looked at.
TempAtFloorNever(t) == FALSE
\* temp <= 1
TempAtFloor(t) == t <= TempScale
\* temp *= cooling_rate
Cooled(t) == (t \div COOLING_DEN) * COOLING_NUM
\* The iterations the model follows: range(iterations), cut at MaxIter.
IterBudget == Min(ITERATIONS, MaxIter)

\* Variant: only an empty pool is refused.
PoolEmpty(items) == Len(items) < 1
\* line 533
PoolTooSmall(items) == Len(items) < MIN_ITEMS
\* line 542
InitialSize(items) == Min(INITIAL_ITEMS, Len(items))

\* random.sample(items, k): the items at k distinct positions, in any order.
Samples(items, k) ==
    {[j \in 1..k |-> items[pos[j]]] :
        pos \in {q \in [1..k -> DOMAIN items] : \A a, b \in 1..k : a # b => q[a] # q[b]}}

RemoveAt(s, i) == SubSeq(s, 1, i - 1) \o SubSeq(s, i + 1, Len(s))

\* The guards of the three perturbations (lines 554, 557, 562).
CanSwap(neighbor) == Len(neighbor) > 1
CanAdd(neighbor) == Len(neighbor) < MAX_ITEMS
\* Variant of the remove guard: a plan may shrink to one item.
CanRemoveToOne(neighbor) == Len(neighbor) > 1
CanRemove(neighbor) == Len(neighbor) > MIN_ITEMS

\* possible_adds, line 558
PossibleAdds(items, neighbor) == {it \in Range(items) : it \notin Range(neighbor)}

\* The neighbors one round can build from a copy of current_solution, by the
\* action drawn; an action whose guard fails leaves the copy as it is.
SwapNeighbors(items, sol) ==
    IF CanSwap(sol)
    THEN {[sol EXCEPT ![i] = it] : i \in DOMAIN sol, it \in Range(items)}
    ELSE {sol}
AddNeighbors(items, sol) ==
    IF CanAdd(sol) /\ PossibleAdds(items, sol) # {}
    THEN {Append(sol, it) : it \in PossibleAdds(items, sol)}
    ELSE {sol}
RemoveNeighbors(sol) ==
    IF CanRemove(sol) THEN {RemoveAt(sol, i) : i \in DOMAIN sol} ELSE {sol}
Neighbors(items, sol) ==
    SwapNeighbors(items, sol) \cup AddNeighbors(items, sol) \cup RemoveNeighbors(sol)

\* Line 570: whether the neighbor may be accepted (TRUE), rejected (FALSE).
\* exp((current - neighbor) / temp) is 1 for equal scores and below 1 for a
\* worse neighbor, and random.random() is in [0, 1).
Acceptance(neighbor_score, current_score) ==
    IF ScoreLess(neighbor_score, current_score) \/ neighbor_score = current_score
    THEN {TRUE}
    ELSE {TRUE, FALSE}

\* Line 574
ImprovesBest(neighbor_score, best) == ScoreLess(neighbor_score, best)

(***************************************************************************)
(* find_best_meal.                                                         *)
(***************************************************************************)
\* The dietary filter of lines 598-611; dietary_filters is the set of keys
\* whose value is true.
PassesFilter(item, dietary_filters) ==
    /\ ~("Vegetarian" \in dietary_filters /\ "Vegetarian" \notin item.traits)
    /\ ~("Vegan" \in dietary_filters /\ "Vegan" \notin item.traits)
    /\ ~("No Gluten" \in dietary_filters /\ "Contains Gluten" \in item.traits)

\* Variant: each pass drops only the first item that fails the filter.
RECURSIVE DropFirstFailing(_, _)
DropFirstFailing(items, dietary_filters) ==
    IF items = <<>> THEN <<>>
    ELSE IF PassesFilter(items[1], dietary_filters)
         THEN <<items[1]>> \o DropFirstFailing(Tail(items), dietary_filters)
         ELSE Tail(items)

FilteredList(items, dietary_filters) ==
    SelectSeq(items, LAMBDA it : PassesFilter(it, dietary_filters))

\* Variant: the exclusion list is not consulted.
MatchesPeriodOnly(item, rq) == item.meal_name \in rq.meal_periods_to_check

\* The condition of lines 616 and 631-632.
Matches(item, rq) ==
    /\ item.name \notin rq.exclusion_list
    /\ item.meal_name \in rq.meal_periods_to_check

\* court_specific_items, lines 628-633
CourtSpecificItems(filtered, c, rq) ==
    SelectSeq(filtered, LAMBDA it : it.court = c /\ Matches(it, rq))

\* Variants of line 641: the comparison reversed, and ties taking over.
TakesOverReversed(court_solution, court_score, overall_score) ==
    court_solution # None /\ ScoreLess(overall_score, court_score)
TakesOverOnTie(court_solution, court_score, overall_score) ==
    court_solution # None /\ ~ScoreLess(overall_score, court_score)

\* Line 641
TakesOver(court_solution, court_score, overall_score) ==
    court_solution # None /\ ScoreLess(court_score, overall_score)

\* Variant: the totals reported are those of the plan's first item.
SolutionWithTotalsOfFirst(c, court_solution, court_score, court_totals) ==
    [score |-> court_score, court |-> c, meal_name |-> court_solution[1].meal_name,
     plan |-> court_solution, totals |-> Totals(<<court_solution[1]>>)]

\* The result dict of lines 643-649.
Solution(c, court_solution, court_score, court_totals) ==
    [score |-> court_score, court |-> c, meal_name |-> court_solution[1].meal_name,
     plan |-> court_solution, totals |-> court_totals]

\* The requests of the model.
TargetChoices == {[p |-> 80, c |-> 100, f |-> 20], [p |-> 250, c |-> 150, f |-> 100]}
ExclusionChoices == {{}, {"Tofu"}}
FilterChoices == {{}, {"Vegetarian"}, {"Vegan"}, {"No Gluten"}, {"No Nuts"},
                  {"No Eggs"}, {"Vegan", "No Gluten"}}
Requests ==
    [targets : TargetChoices, meal_periods_to_check : {{"Lunch"}},
     exclusion_list : ExclusionChoices, dietary_filters : FilterChoices]
    \cup [targets : TargetChoices, meal_periods_to_check : {{"Dinner"}},
          exclusion_list : {{}}, dietary_filters : {{}, {"Vegetarian"}}]
    \cup [targets : TargetChoices, meal_periods_to_check : {{"Lunch", "Dinner"}},
          exclusion_list : {{}}, dietary_filters : {{"Vegan"}, {"Vegan", "No Gluten"}}]
NoRequest ==
    [targets |-> [p |-> 0, c |-> 0, f |-> 0], meal_periods_to_check |-> {},
     exclusion_list |-> {}, dietary_filters |-> {}]

ResetOpt ==
    /\ run_court' = None
    /\ available_items' = <<>>
    /\ current_solution' = <<>>
    /\ best_solution' = None
    /\ best_score' = Inf
    /\ best_totals' = EmptyDict
    /\ temp' = 0
    /\ iter' = 0

\* Lines 583-592: the call, and the date check.  When the date changed the
\* thread goes on in _load_all_menu_data.
FindStart(rq) ==
    /\ pc["Request"] \in {"idle", "find_returned"}
    /\ request' = rq
    /\ EnsureCurrentDate
    /\ pc' = [pc EXCEPT !["Request"] = IF DateIsStale THEN "load_begin" ELSE "find_gate"]
    /\ filtered_master_list' = <<>>
    /\ available_courts' = {}
    /\ overall_best_solution' = None
    /\ overall_best_score' = Inf
    /\ visited' = <<>>
    /\ find_loaded' = FALSE
    /\ find_ret' = None
    /\ ResetOpt
    /\ UNCHANGED <<auxVars, clock, menu_disk, loadVars>>

\* Variant of lines 598-611: the store itself is filtered.
StoreFilteredInPlace(store, filtered) == filtered

\* Lines 598-611: the items that pass are appended to a new list, and the
\* store is only read.
StoreAfterFilter(store, filtered) == store

\* Lines 594-622: the loaded gate, the dietary filter, the available courts.
FindGate ==
    /\ pc["Request"] = "find_gate"
    /\ find_loaded' = data_loaded
    /\ IF ~data_loaded
       THEN /\ pc' = [pc EXCEPT !["Request"] = "find_returned"]
            /\ UNCHANGED <<master_item_list, filtered_master_list, available_courts>>
       ELSE LET filtered == FilteredList(master_item_list, request.dietary_filters)
                courts == {filtered[i].court : i \in
                              {j \in DOMAIN filtered : Matches(filtered[j], request)}}
            IN /\ filtered_master_list' = filtered
               /\ master_item_list' = StoreAfterFilter(master_item_list, filtered)
               /\ available_courts' = courts
               /\ pc' = [pc EXCEPT !["Request"] =
                     IF courts = {} THEN "find_returned" ELSE "find_court"]
    /\ UNCHANGED <<auxVars, clock, menu_disk, todays_date, cache_file, ai_cache_file,
                   data_loaded, items_by_court, items_by_meal, loadVars, request,
                   overall_best_solution, overall_best_score, visited, find_ret, optVars>>

\* Lines 627-638 and 531-543: the next court of the loop (a set is iterated in
\* any order), its items, and the start of its optimizer run.  A pool below
\* MIN_ITEMS returns (None, inf, {}) at once, which line 641 ignores.
FindCourt ==
    /\ pc["Request"] = "find_court"
    /\ available_courts # {}
    /\ \E c \in available_courts :
         LET items == CourtSpecificItems(filtered_master_list, c, request) IN
         /\ available_courts' = available_courts \ {c}
         /\ IF PoolTooSmall(items)
            THEN /\ visited' = Append(visited, [court |-> c, pool |-> Len(items), rounds |-> 0,
                                                score |-> Inf, solution |-> None])
                 /\ UNCHANGED <<optVars, pc>>
            ELSE /\ run_court' = c
                 /\ available_items' = items
                 /\ best_solution' = None
                 /\ best_score' = Inf
                 /\ best_totals' = EmptyDict
                 /\ \E sample \in Samples(items, InitialSize(items)) :
                        current_solution' = sample
                 /\ temp' = INITIAL_TEMP * TempScale
                 /\ iter' = 0
                 /\ pc' = [pc EXCEPT !["Request"] = "opt_iter"]
                 /\ UNCHANGED visited
    /\ UNCHANGED <<auxVars, clock, menu_disk, engineVars, loadVars, request, filtered_master_list,
                   overall_best_solution, overall_best_score, find_loaded, find_ret>>

\* Lines 545-579: one round of the annealing loop.
OptIterate ==
    /\ pc["Request"] = "opt_iter"
    /\ iter < IterBudget
    /\ ~TempAtFloor(temp)
    /\ \E neighbor \in Neighbors(available_items, current_solution) :
         LET cur == _calculate_score(current_solution, request.targets, WEIGHTS, PENALTIES)
             nb == _calculate_score(neighbor, request.targets, WEIGHTS, PENALTIES)
         IN /\ \E accept \in Acceptance(nb.score, cur.score) :
                 current_solution' = IF accept THEN neighbor ELSE current_solution
            /\ IF ImprovesBest(nb.score, best_score)
               THEN /\ best_score' = nb.score
                    /\ best_totals' = nb.totals
                    /\ best_solution' = neighbor
               ELSE UNCHANGED <<best_score, best_totals, best_solution>>
    /\ temp' = Cooled(temp)
    /\ iter' = iter + 1
    /\ UNCHANGED <<auxVars, clock, menu_disk, engineVars, pc, loadVars, findVars,
                   run_court, available_items>>

\* Line 581 and lines 640-649: the loop is over, the run returns its best and
\* find_best_meal keeps it if it beats the best so far.
OptReturn ==
    /\ pc["Request"] = "opt_iter"
    /\ iter >= IterBudget \/ TempAtFloor(temp)
    /\ visited' = Append(visited, [court |-> run_court, pool |-> Len(available_items),
                                   rounds |-> iter, score |-> best_score,
                                   solution |-> best_solution])
    /\ IF TakesOver(best_solution, best_score, overall_best_score)
       THEN /\ overall_best_score' = best_score
            /\ overall_best_solution' = Solution(run_court, best_solution, best_score, best_totals)
       ELSE UNCHANGED <<overall_best_score, overall_best_solution>>
    /\ pc' = [pc EXCEPT !["Request"] = "find_court"]
    /\ ResetOpt
    /\ UNCHANGED <<auxVars, clock, menu_disk, engineVars, loadVars, request, filtered_master_list,
                   available_courts, find_loaded, find_ret>>

\* Line 651
FindReturn ==
    /\ pc["Request"] = "find_court"
    /\ available_courts = {}
    /\ find_ret' = overall_best_solution
    /\ pc' = [pc EXCEPT !["Request"] = "find_returned"]
    /\ filtered_master_list' = <<>>
    /\ overall_best_solution' = None
    /\ overall_best_score' = Inf
    /\ UNCHANGED <<auxVars, clock, menu_disk, engineVars, loadVars, request,
                   available_courts, visited, find_loaded, optVars>>

(***************************************************************************)
(* get_top_protein_foods.                                                  *)
(***************************************************************************)
FoodKey(item) == <<item.name, item.p, item.c, item.f>>

\* Variant: every item of the store is a food of its own.
UniqueFoodsKeepsAll(items) == items

\* unique_foods.values(): one food per (name, p, c, f), the last item with the
\* key, in the order in which the keys first appear.
UniqueFoods(items) ==
    LET firsts == SelectSeq([i \in DOMAIN items |-> i],
                    LAMBDA i : \A j \in 1..(i - 1) : FoodKey(items[j]) # FoodKey(items[i]))
        last(i) == CHOOSE j \in DOMAIN items :
                      /\ FoodKey(items[j]) = FoodKey(items[i])
                      /\ \A k \in DOMAIN items : FoodKey(items[k]) = FoodKey(items[i]) => k <= j
    IN [n \in DOMAIN firsts |-> items[last(firsts[n])]]

\* calories, in tenths of a kcal
Calories(food) == food.p * 4 + food.c * 4 + food.f * 9
\* calories > 50 and p > 5 (grams), line 273
IsProteinDense(food) == Calories(food) > 500 /\ food.p > 50
\* a.protein_density > b.protein_density, by cross-multiplication
DenserThan(a, b) == a.p * Calories(b) > b.p * Calories(a)

\* sort(key=protein_density, reverse=True): stable, densest first.
RECURSIVE SortByDensity(_)
SortByDensity(foods) ==
    IF foods = <<>> THEN <<>>
    ELSE LET rest == SortByDensity(Tail(foods))
             before == SelectSeq(rest, LAMBDA x : DenserThan(x, foods[1]))
             after == SelectSeq(rest, LAMBDA x : ~DenserThan(x, foods[1]))
         IN before \o <<foods[1]>> \o after

TopProteinFoods(items, count) ==
    LET dense == SelectSeq(UniqueFoods(items), IsProteinDense)
        sorted == SortByDensity(dense)
    IN SubSeq(sorted, 1, Min(count, Len(sorted)))

NoTopCall == [called |-> FALSE, loaded |-> FALSE, count |-> 0, ret |-> <<>>]

\* Lines 263-282: a call of get_top_protein_foods(count), by any thread.
\* (The calories and protein_density keys added to each returned food are
\* left out.)
GetTopProteinFoods(count) ==
    /\ top_call' = [called |-> TRUE, loaded |-> data_loaded, count |-> count,
                    ret |-> TopProteinFoods(master_item_list, count)]
    /\ UNCHANGED <<scoreVars, pureVars, hostVars, aiVars, clock, menu_disk, engineVars, pc,
                   loadVars, findVars, optVars>>

(***************************************************************************)
(* _fetch_ai_suggestion_from_api.                                          *)
(***************************************************************************)
\* The results a fetch returns and the cache holds.
ErrorResult(msg) == [error |-> msg]
NotConfigured == ErrorResult("AI service is not configured.")
NoItemsFound == ErrorResult("No items found for this dining court and meal.")
NoCombination == ErrorResult("AI could not find a valid combination.")
SuggestionFailed == ErrorResult("The AI suggestion failed. Try again.")
PreloadFailed == ErrorResult("Failed to pre-load suggestion.")
Loading == [status |-> "loading"]

\* available_items, lines 325-328
AvailableFor(items, court_name, meal_name) ==
    SelectSeq(items, LAMBDA it : it.court = court_name /\ it.meal_name = meal_name)

\* What the remote model call does: it answers with JSON naming foods (the
\* available ones, an unknown one, none), answers with text that is not
\* JSON, or raises (a 429 RESOURCE_EXHAUSTED rate limit, or another error).
RemoteAnswers(available) ==
    {[kind |-> "json", foods |-> [i \in DOMAIN available |-> available[i].name]],
     [kind |-> "json", foods |-> <<"Mystery Dish">>],
     [kind |-> "json", foods |-> <<>>],
     [kind |-> "text", foods |-> <<>>],
     [kind |-> "rate_limit", foods |-> <<>>],
     [kind |-> "failure", foods |-> <<>>]}

\* Lines 379-389: for each suggested name, the first available item with it.
RECURSIVE SuggestionOf(_, _)
SuggestionOf(suggested_names, available) ==
    IF suggested_names = <<>> THEN <<>>
    ELSE LET hits == SelectSeq(available, LAMBDA it : it.name = suggested_names[1])
         IN (IF hits = <<>> THEN <<>> ELSE <<hits[1]>>)
            \o SuggestionOf(Tail(suggested_names), available)

\* Lines 391-406
SuggestionResult(suggestion, court_name, meal_name) ==
    IF suggestion = <<>> THEN NoCombination
    ELSE [plan |-> suggestion,
          totals |-> [p |-> SumOf(suggestion, "p"), c |-> SumOf(suggestion, "c"),
                      f |-> SumOf(suggestion, "f"),
                      calories |-> SumOf(suggestion, "p") * 4 + SumOf(suggestion, "c") * 4
                                   + SumOf(suggestion, "f") * 9],
          court |-> court_name, meal_name |-> meal_name]

\* How one attempt ends.  called: the remote call was made; retry: the attempt
\* ends in the sleep before the retry, of delay seconds; raised: an exception
\* leaves the function; else result is returned.
Outcome(called, answer, retry, delay, raised, result) ==
    [called |-> called, answer |-> answer, retry |-> retry, delay |-> delay,
     raised |-> raised, result |-> result]

\* Variant of the handler of lines 408-417: a rate limit is retried on the
\* retry too.
AnswerOutcomesAlwaysRetry(answer, available, court_name, meal_name, is_retry) ==
    IF answer.kind = "rate_limit"
    THEN {Outcome(TRUE, answer.kind, TRUE, d, FALSE, None) :
              d \in RETRY_DELAY_MIN..RETRY_DELAY_MAX}
    ELSE IF answer.kind \in {"failure", "text"}
    THEN {Outcome(TRUE, answer.kind, FALSE, 0, FALSE, SuggestionFailed)}
    ELSE {Outcome(TRUE, answer.kind, FALSE, 0, FALSE,
              IF answer.foods = <<>> THEN NoCombination
              ELSE SuggestionResult(SuggestionOf(answer.foods, available),
                                    court_name, meal_name))}

\* Lines 361-417: the outcomes of the attempt on one answer of the remote call.
AnswerOutcomes(answer, available, court_name, meal_name, is_retry) ==
    IF answer.kind = "rate_limit" /\ ~is_retry
    THEN {Outcome(TRUE, answer.kind, TRUE, d, FALSE, None) :
              d \in RETRY_DELAY_MIN..RETRY_DELAY_MAX}
    ELSE IF answer.kind \in {"rate_limit", "failure", "text"}
    THEN {Outcome(TRUE, answer.kind, FALSE, 0, FALSE, SuggestionFailed)}
    ELSE {Outcome(TRUE, answer.kind, FALSE, 0, FALSE,
              IF answer.foods = <<>> THEN NoCombination
              ELSE SuggestionResult(SuggestionOf(answer.foods, available),
                                    court_name, meal_name))}

\* An exception that leaves the function: no statement outside its try block
\* raises on a store the loader built, so this stands for a fault of the
\* runtime (MemoryError and the like).
Escaped == Outcome(FALSE, "none", FALSE, 0, TRUE, None)

\* Lines 319-417: the outcomes of one attempt.
Attempts(items, has_key, court_name, meal_name, is_retry) ==
    IF ~has_key THEN {Outcome(FALSE, "none", FALSE, 0, FALSE, NotConfigured)}
    ELSE LET available == AvailableFor(items, court_name, meal_name) IN
         IF available = <<>> THEN {Outcome(FALSE, "none", FALSE, 0, FALSE, NoItemsFound)}
         ELSE {Escaped} \cup
              UNION {AnswerOutcomes(a, available, court_name, meal_name, is_retry) :
                        a \in RemoteAnswers(available)}

NoAiCall ==
    [key |-> None, checked |-> FALSE, hit |-> FALSE, after_completed |-> FALSE,
     in_sweep |-> FALSE, calls |-> 0, answer |-> "none", raised |-> FALSE,
     returned |-> FALSE, ret |-> None, cached_on |-> 0, date |-> 0]

(***************************************************************************)
(* The AI suggestion cache: get_ai_suggestion, the disk file, the           *)
(* background preloader and its workers.  A cache key is <<court, meal>>.   *)
(* "with self.cache_lock" around one statement is one step that needs the   *)
(* lock free; the marking loop of the preloader holds it over its steps.    *)
(***************************************************************************)
\* What every step of this section leaves alone.
restVars == <<top_call, scoreVars, pureVars, hostVars, clock, menu_disk, loadVars,
              findVars, optVars>>

\* Variant: the save never raises and writes an empty object.
JsonOfCacheEmptied(cache) == [raised |-> FALSE, data |-> EmptyDict]

\* Lines 308-313: {list(k): v ...} raises TypeError (a list is unhashable) as
\* soon as the cache has a key, and the handler of line 316 only logs it; an
\* empty cache is written as {}.
JsonOfCache(cache) ==
    IF DOMAIN cache = {} THEN [raised |-> FALSE, data |-> EmptyDict]
    ELSE [raised |-> TRUE, data |-> EmptyDict]

\* Lines 297-299: {tuple(k): v ...}; a key of the file is a string, and the
\* tuple of a string is its sequence of characters.
CacheOfJson(data_from_disk) == [k \in DOMAIN data_from_disk |-> data_from_disk[k]]

\* _save_ai_cache_to_disk, by a thread that finds the lock free.
SaveAiCache ==
    LET json == JsonOfCache(ai_suggestions_cache) IN
    IF json.raised THEN UNCHANGED <<ai_files, ai_disk>>
    ELSE /\ ai_files' = ai_files \cup {ai_cache_file}
         /\ ai_disk' = [ai_disk EXCEPT ![ai_cache_file] = json.data]

\* Variant: an error result is not stored.
CacheAfterStoreSkippingErrors(cache, cache_key, suggestion) ==
    IF "error" \in DOMAIN suggestion THEN cache ELSE Put(cache, cache_key, suggestion)

\* Line 440
CacheAfterStore(cache, cache_key, suggestion) == Put(cache, cache_key, suggestion)

\* The keys the model looks up: a pair the store of date 1 has, and one it
\* has not.
LookupKeys == {<<"Wiley", "Lunch">>, <<"Earhart", "Dinner">>}

\* Lines 419-426: the call and the date check.
AiStart(cache_key) ==
    /\ pc["Request"] \in {"idle", "find_returned", "ai_returned"}
    /\ ai_key' = cache_key
    /\ ai_suggestion' = None
    /\ ai_call' = [NoAiCall EXCEPT !.key = cache_key, !.date = clock]
    /\ EnsureCurrentDate
    /\ pc' = [pc EXCEPT !["Request"] = IF DateIsStale THEN "load_begin" ELSE "ai_check"]
    /\ UNCHANGED <<restVars, ai_suggestions_cache, cache_lock, ai_files, ai_disk,
                   jobs_set, missing_jobs, tasks, ai_cached_on, ai_completed, lock_breach>>

\* Lines 425-432: after a reload, the wait for data_loaded; then the lookup,
\* which does not take the lock.
AiCheck ==
    /\ \/ pc["Request"] = "ai_check"
       \/ pc["Request"] = "ai_wait" /\ data_loaded
    /\ LET hit == ai_key \in DOMAIN ai_suggestions_cache IN
       /\ ai_call' = [ai_call EXCEPT
              !.checked = TRUE,
              !.hit = hit,
              !.after_completed = ai_key \in ai_completed,
              !.in_sweep = pc["AIPreloader"] = "pre_sweep" /\ ai_key \in missing_jobs,
              !.returned = hit,
              !.ret = IF hit THEN ai_suggestions_cache[ai_key] ELSE None,
              !.cached_on = IF hit THEN ai_cached_on[ai_key] ELSE 0]
       /\ pc' = [pc EXCEPT !["Request"] = IF hit THEN "ai_returned" ELSE "ai_fetch"]
       /\ ai_key' = IF hit THEN None ELSE ai_key
    /\ lock_breach' =
          IF lock_breach = None \/ (lock_breach.lock = "free" /\ cache_lock # "free")
          THEN [thread |-> "Request", op |-> "lookup", lock |-> cache_lock]
          ELSE lock_breach
    /\ UNCHANGED <<restVars, engineVars, ai_suggestions_cache, cache_lock, ai_files, ai_disk,
                   ai_suggestion, jobs_set, missing_jobs, tasks, ai_cached_on, ai_completed>>

\* Line 436: one attempt of the fetch of the running call.  An exception that
\* leaves the fetch leaves get_ai_suggestion too, and nothing is stored.
AiAttempt(is_retry) ==
    /\ \E o \in Attempts(master_item_list, api_key, ai_key[1], ai_key[2], is_retry) :
         /\ ai_call' = [ai_call EXCEPT
                !.calls = IF o.called THEN @ + 1 ELSE @,
                !.answer = IF o.called THEN o.answer ELSE @,
                !.raised = o.raised]
         /\ ai_suggestion' = o.result
         /\ pc' = [pc EXCEPT !["Request"] =
                IF o.raised THEN "ai_returned" ELSE IF o.retry THEN "ai_sleep" ELSE "ai_store"]
         /\ ai_key' = IF o.raised THEN None ELSE ai_key
    /\ UNCHANGED <<restVars, engineVars, ai_suggestions_cache, cache_lock, ai_files, ai_disk,
                   jobs_set, missing_jobs, tasks, ai_cached_on, ai_completed, lock_breach>>

AiFetch ==
    /\ pc["Request"] = "ai_fetch"
    /\ AiAttempt(FALSE)

\* Lines 412-414: the sleep is over, the retry.
AiRetry ==
    /\ pc["Request"] = "ai_sleep"
    /\ AiAttempt(TRUE)

\* Lines 439-440
AiStore ==
    /\ pc["Request"] = "ai_store"
    /\ cache_lock = "free"
    /\ ai_suggestions_cache' = CacheAfterStore(ai_suggestions_cache, ai_key, ai_suggestion)
    /\ ai_cached_on' = [k \in DOMAIN ai_suggestions_cache' |->
                           IF k = ai_key THEN clock ELSE ai_cached_on[k]]
    /\ pc' = [pc EXCEPT !["Request"] = "ai_save"]
    /\ UNCHANGED <<restVars, engineVars, cache_lock, ai_files, ai_disk, ai_key,
                   ai_suggestion, jobs_set, missing_jobs, tasks, ai_call, ai_completed,
                   lock_breach>>

\* Lines 442-444
AiSave ==
    /\ pc["Request"] = "ai_save"
    /\ cache_lock = "free"
    /\ SaveAiCache
    /\ ai_call' = [ai_call EXCEPT !.returned = TRUE, !.ret = ai_suggestion]
    /\ ai_completed' = ai_completed \cup {ai_key}
    /\ ai_key' = None
    /\ ai_suggestion' = None
    /\ pc' = [pc EXCEPT !["Request"] = "ai_returned"]
    /\ UNCHANGED <<restVars, engineVars, ai_suggestions_cache, cache_lock, jobs_set,
                   missing_jobs, tasks, ai_cached_on, lock_breach>>

AiStep == AiCheck \/ AiFetch \/ AiRetry \/ AiStore \/ AiSave

\* Lines 449-458: the wait for the store, then the date check.
PreloadStart ==
    /\ pc["AIPreloader"] = "pre_wait"
    /\ data_loaded
    /\ EnsureCurrentDate
    /\ pc' = [pc EXCEPT !["AIPreloader"] =
                 IF DateIsStale THEN "load_begin" ELSE "pre_load_cache"]
    /\ UNCHANGED <<restVars, aiVars>>

\* Lines 457-461 and _load_ai_cache_from_disk: its own date check, whose
\* result is dropped, and the cache replaced by the file when there is one.
PreloadLoadCache ==
    /\ \/ pc["AIPreloader"] = "pre_load_cache"
       \/ pc["AIPreloader"] = "pre_await" /\ data_loaded
    /\ EnsureCurrentDate
    /\ IF ai_cache_file' \in ai_files
       THEN /\ cache_lock = "free"
            /\ ai_suggestions_cache' = CacheOfJson(ai_disk[ai_cache_file'])
            /\ ai_cached_on' = [k \in DOMAIN ai_suggestions_cache' |-> clock]
       ELSE UNCHANGED <<ai_suggestions_cache, ai_cached_on>>
    /\ pc' = [pc EXCEPT !["AIPreloader"] = "pre_jobs"]
    /\ UNCHANGED <<restVars, cache_lock, ai_files, ai_disk, ai_key, ai_suggestion, jobs_set,
                   missing_jobs, tasks, ai_call, ai_completed, lock_breach>>

\* Lines 464-466
PreloadJobs ==
    /\ pc["AIPreloader"] = "pre_jobs"
    /\ jobs_set' = {<<master_item_list[i].court, master_item_list[i].meal_name>> :
                       i \in DOMAIN master_item_list}
    /\ pc' = [pc EXCEPT !["AIPreloader"] = "pre_missing"]
    /\ UNCHANGED <<restVars, engineVars, ai_suggestions_cache, cache_lock, ai_files, ai_disk,
                   ai_key, ai_suggestion, missing_jobs, tasks, ai_cached_on, ai_call,
                   ai_completed, lock_breach>>

\* Lines 469-477
PreloadMissing ==
    /\ pc["AIPreloader"] = "pre_missing"
    /\ cache_lock = "free"
    /\ missing_jobs' = {job \in jobs_set : job \notin DOMAIN ai_suggestions_cache}
    /\ pc' = [pc EXCEPT !["AIPreloader"] = IF missing_jobs' = {} THEN "done" ELSE "pre_mark"]
    /\ UNCHANGED <<restVars, engineVars, ai_suggestions_cache, cache_lock, ai_files, ai_disk,
                   ai_key, ai_suggestion, jobs_set, tasks, ai_cached_on, ai_call,
                   ai_completed, lock_breach>>

\* Variant: the placeholder is not written.
MarkedCacheUnmarked(cache, job) == cache

\* Line 484
MarkedCache(cache, job) == Put(cache, job, Loading)

\* The state of a _preload_worker call that was submitted and has not started.
Queued == "queued"

\* Lines 482-484 and 502-503: one round of the marking loop, which holds the
\* lock from its first round to its last; after the last one the jobs are
\* handed to the executor.
PreloadMark(job) ==
    /\ pc["AIPreloader"] = "pre_mark"
    /\ cache_lock \in {"free", "AIPreloader"}
    /\ job \in missing_jobs \ DOMAIN tasks
    /\ ai_suggestions_cache' = MarkedCache(ai_suggestions_cache, job)
    /\ ai_cached_on' = [k \in DOMAIN ai_cached_on \cup {job} |->
                           IF k = job THEN clock ELSE ai_cached_on[k]]
    /\ tasks' = Put(tasks, job, Queued)
    /\ LET last == DOMAIN tasks' = missing_jobs IN
       /\ cache_lock' = IF last THEN "free" ELSE "AIPreloader"
       /\ pc' = [pc EXCEPT !["AIPreloader"] = IF last THEN "pre_sweep" ELSE "pre_mark"]
    /\ UNCHANGED <<restVars, engineVars, ai_files, ai_disk, ai_key, ai_suggestion, jobs_set,
                   missing_jobs, ai_call, ai_completed, lock_breach>>

\* The _preload_worker calls a thread of the pool is running.
Running == {j \in DOMAIN tasks : tasks[j] \notin {Queued, "done"}}

\* Variant: a worker whose fetch raised writes nothing over the placeholder.
WorkerResultLeavesPlaceholder(o) == IF o.raised THEN Loading ELSE o.result

\* Lines 493 and 497-499: what the worker writes under its key when its
\* fetch ended as o; an exception that leaves the fetch is caught at line 494.
WorkerResult(o) == IF o.raised THEN PreloadFailed ELSE o.result

\* Lines 491-499: one attempt of the fetch of worker job, and the write of its
\* result under the lock unless the attempt ends in the sleep before the
\* retry.  No thread keeps the lock over a step while the executor runs, so
\* the write follows the attempt in the same step.
WorkerAttempt(job, is_retry) ==
    /\ pc["AIPreloader"] = "pre_sweep"
    /\ cache_lock = "free"
    /\ \E o \in Attempts(master_item_list, api_key, job[1], job[2], is_retry) :
         IF o.retry
         THEN /\ tasks' = [tasks EXCEPT ![job] = "sleep"]
              /\ UNCHANGED <<ai_suggestions_cache, ai_cached_on>>
         ELSE /\ tasks' = [tasks EXCEPT ![job] = "done"]
              /\ ai_suggestions_cache' = Put(ai_suggestions_cache, job, WorkerResult(o))
              /\ ai_cached_on' = [ai_cached_on EXCEPT ![job] = clock]
    /\ UNCHANGED <<restVars, engineVars, pc, cache_lock, ai_files, ai_disk, ai_key,
                   ai_suggestion, jobs_set, missing_jobs, ai_call, ai_completed, lock_breach>>

WorkerFetch(job) ==
    /\ job \in DOMAIN tasks
    /\ tasks[job] = Queued
    /\ Cardinality(Running) < AI_MAX_WORKERS
    /\ WorkerAttempt(job, FALSE)

\* Lines 412-414 in a worker: the sleep is over, the retry.
WorkerRetry(job) ==
    /\ job \in DOMAIN tasks
    /\ tasks[job] = "sleep"
    /\ WorkerAttempt(job, TRUE)

\* Lines 502-507: the executor has run every job; the save.
PreloadSave ==
    /\ pc["AIPreloader"] = "pre_sweep"
    /\ \A j \in DOMAIN tasks : tasks[j] = "done"
    /\ cache_lock = "free"
    /\ SaveAiCache
    /\ pc' = [pc EXCEPT !["AIPreloader"] = "done"]
    /\ UNCHANGED <<restVars, engineVars, ai_suggestions_cache, cache_lock, ai_key,
                   ai_suggestion, jobs_set, missing_jobs, tasks, ai_cached_on, ai_call,
                   ai_completed, lock_breach>>

PreloadStep ==
    \/ PreloadStart
    \/ PreloadLoadCache
    \/ PreloadJobs
    \/ PreloadMissing
    \/ \E job \in missing_jobs : PreloadMark(job)
    \/ PreloadSave
WorkerStep ==
    \/ \E job \in missing_jobs : WorkerFetch(job)
    \/ \E job \in missing_jobs : WorkerRetry(job)

(***************************************************************************)
(* The engine: the state after MealFinder() and start_background_loaders() *)
(* on date 1.                                                              *)
(***************************************************************************)
NoEnsureCall == [called |-> FALSE]

\* Lines 45-52: the store of a new engine.
StoreEmpty ==
    /\ master_item_list = <<>>
    /\ data_loaded = FALSE
    /\ items_by_court = EmptyDict
    /\ items_by_meal = EmptyDict

EngineBesidesStore ==
    /\ clock = 1
    /\ todays_date = 1
    /\ cache_file = 1
    /\ ai_cache_file = 1
    /\ pc = [t \in Threads |-> IF t = "MenuLoader" THEN "load_begin"
                                ELSE IF t = "AIPreloader" THEN "pre_wait" ELSE "idle"]
    /\ cached_data = [t \in Threads |-> EmptyDict]
    /\ needs_to_save_cache = [t \in Threads |-> FALSE]
    /\ fetched = [t \in Threads |-> EmptyDict]
    /\ court_idx = [t \in Threads |-> 1]
    /\ menu_calls = [t \in Threads |-> <<>>]
    /\ menu_saved = [t \in Threads |-> FALSE]
    /\ ensure_call = NoEnsureCall
    /\ request = NoRequest
    /\ filtered_master_list = <<>>
    /\ available_courts = {}
    /\ overall_best_solution = None
    /\ overall_best_score = Inf
    /\ visited = <<>>
    /\ find_loaded = FALSE
    /\ find_ret = None
    /\ run_court = None
    /\ available_items = <<>>
    /\ current_solution = <<>>
    /\ best_solution = None
    /\ best_score = Inf
    /\ best_totals = EmptyDict
    /\ temp = 0
    /\ iter = 0
    /\ top_call = NoTopCall
    /\ ai_suggestions_cache = EmptyDict
    /\ cache_lock = "free"
    /\ ai_files = {}
    /\ ai_disk = [d \in Dates |-> EmptyDict]
    /\ ai_key = None
    /\ ai_suggestion = None
    /\ jobs_set = {}
    /\ missing_jobs = {}
    /\ tasks = EmptyDict
    /\ ai_cached_on = EmptyDict
    /\ ai_call = NoAiCall
    /\ ai_completed = {}
    /\ lock_breach = None

EngineStart ==
    /\ StoreEmpty
    /\ EngineBesidesStore

\* app.py after the first get_engine call: the engine is constructed and its
\* loaders are started; no get_engine call is running.
Callers == 1..NumCallers
\* app.py line 49: meal_finder_engine = None; an engine is the number of the
\* MealFinder() construction that made it.
NoEngine == 0
\* app.py line 50: engine_lock is free, or held by a caller.
Unlocked == 0
AppLive ==
    /\ meal_finder_engine = 1
    /\ engine_lock = Unlocked
    /\ caller_pc = [c \in Callers |-> "idle"]
    /\ caller_ret = [c \in Callers |-> None]
    /\ constructed = 1
    /\ started = 1

NumericIdle ==
    /\ label_str = None
    /\ numeric_ret = None

\* The engine with no menu cache file on disk and a menu source that answers
\* with well-formed payloads.
EngineInit ==
    /\ EngineStart
    /\ menu_disk = [d \in Dates |-> EmptyDict]
    /\ remote_shapes = {WellFormed}
    /\ AppLive
    /\ NumericIdle

\* The variables of the specifications of single functions, when unused.
ScoreIdle ==
    /\ score_plan = <<>>
    /\ score_targets = NoRequest.targets
    /\ score_ret = None
PenaltyIdle ==
    /\ penalties_a = PENALTIES
    /\ penalties_b = PENALTIES
    /\ score_a = None
    /\ score_b = None
FilterIdle ==
    /\ filter_items = <<>>
    /\ filter_flags = {}
    /\ filter_once = <<>>
    /\ filter_twice = <<>>
    /\ filter_runs = 0
FetchIdle ==
    /\ fetch_court = "Wiley"
    /\ fetch_meal = "Lunch"
    /\ fetch_trace = <<>>

Init ==
    /\ EngineInit
    /\ api_key = TRUE
    /\ ScoreIdle
    /\ PenaltyIdle
    /\ FilterIdle
    /\ FetchIdle

\* The steps of the menu load, of find_best_meal and of its optimizer runs.
LoadStep ==
    \/ \E t \in Threads : LoadBegin(t)
    \/ \E t \in Threads : LoadCourt(t)
    \/ \E t \in Threads : LoadFinish(t)
FindStep ==
    \/ FindGate
    \/ FindCourt
    \/ OptIterate
    \/ OptReturn
    \/ FindReturn

Next ==
    \/ LoadStep
    \/ \E rq \in Requests : FindStart(rq)
    \/ FindStep

Spec == Init /\ [][Next]_vars

(***************************************************************************)
(* GateSpec: the engine with get_top_protein_foods called at any time,     *)
(* before, during and after the menu load.                                 *)
(***************************************************************************)
GateRequests ==
    [targets : {[p |-> 80, c |-> 100, f |-> 20]}, meal_periods_to_check : {{"Lunch"}},
     exclusion_list : {{}}, dietary_filters : {{}, {"Vegan"}}]
TopCounts == {1, 25}

GateNext ==
    \/ LoadStep
    \/ \E rq \in GateRequests : FindStart(rq)
    \/ FindStep
    \/ \E count \in TopCounts : GetTopProteinFoods(count)

GateSpec == Init /\ [][GateNext]_vars

(***************************************************************************)
(* AISpec: the engine on date 1 with its two background threads and        *)
(* get_ai_suggestion called at any time.                                   *)
(***************************************************************************)
AINext ==
    \/ LoadStep
    \/ \E cache_key \in LookupKeys : AiStart(cache_key)
    \/ AiStep
    \/ PreloadStep
    \/ WorkerStep

AISpec == Init /\ [][AINext]_vars

(***************************************************************************)
(* SweepSpec: the two background threads of start_background_loaders and   *)
(* the workers of the pool on date 1, under a scheduler that is fair to    *)
(* every thread, with remote calls that return or fail.                    *)
(***************************************************************************)
SweepNext ==
    \/ LoadStep
    \/ PreloadStep
    \/ WorkerStep

\* A thread that can take a step takes one.  For the parse loop this is
\* WF_vars(LoadCourt(t)) written out: LoadCourt(t) is enabled exactly when t
\* is in the loop, and the loop has one round per court.
SweepFairness ==
    /\ WF_vars(\E t \in Threads : LoadBegin(t))
    /\ \A t \in Threads : []<>(pc[t] # "load_court")
    /\ WF_vars(\E t \in Threads : LoadFinish(t))
    /\ WF_vars(PreloadStep)
    /\ WF_vars(WorkerStep)

SweepSpec == Init /\ [][SweepNext]_vars /\ SweepFairness

(***************************************************************************)
(* RolloverSpec: the engine with get_ai_suggestion called at any time      *)
(* while the calendar date advances.                                       *)
(***************************************************************************)
RolloverNext ==
    \/ Tick
    \/ LoadStep
    \/ \E cache_key \in LookupKeys : AiStart(cache_key)
    \/ AiStep

RolloverSpec == Init /\ [][RolloverNext]_vars

(***************************************************************************)
(* ScoreSpec: one call of _calculate_score with the configured weights and *)
(* penalties, on every plan of at most MaxPlanLen items and every target   *)
(* of the sets below.                                                      *)
(***************************************************************************)
ScoreItems ==
    {[p |-> 100, c |-> 200, f |-> 50], [p |-> 150, c |-> 250, f |-> 80],
     [p |-> 250, c |-> 450, f |-> 130], [p |-> 100, c |-> 450, f |-> 130],
     [p |-> 250, c |-> 600, f |-> 130]}
ScoreTargets == {[p |-> 250, c |-> 450, f |-> 130], [p |-> 0, c |-> 0, f |-> 0]}
ScorePlans == UNION {[1..n -> ScoreItems] : n \in 0..MaxPlanLen}

ScoreInit ==
    /\ EngineInit
    /\ score_plan \in ScorePlans
    /\ score_targets \in ScoreTargets
    /\ score_ret = None
    /\ api_key = TRUE
    /\ PenaltyIdle
    /\ FilterIdle
    /\ FetchIdle

CalculateScore ==
    /\ score_ret = None
    /\ score_ret' = _calculate_score(score_plan, score_targets, WEIGHTS, PENALTIES)
    /\ UNCHANGED <<score_plan, score_targets, top_call, pureVars, hostVars, aiVars, clock,
                   menu_disk, engineVars, pc, loadVars, findVars, optVars>>

ScoreNext == CalculateScore

ScoreSpec == ScoreInit /\ [][ScoreNext]_vars

(***************************************************************************)
(* PenaltySpec: _calculate_score called twice on one plan and one target,  *)
(* with the configured weights and two penalties arguments.  A multiplier  *)
(* is stored times 5 like PENALTIES: 0, 1, 1.2, 2 and 3 are 0, 5, 6, 10    *)
(* and 15.                                                                 *)
(***************************************************************************)
PenaltyItems ==
    {[p |-> 100, c |-> 200, f |-> 50], [p |-> 300, c |-> 100, f |-> 50],
     [p |-> 250, c |-> 600, f |-> 200]}
PenaltyPlans == UNION {[1..n -> PenaltyItems] : n \in 0..MaxPlanLen}
PenaltyChoices == [under_p : {0, 5, 10, 15}, over_c : {5, 6}, over_f : {5, 15}]

PenaltyInit ==
    /\ EngineInit
    /\ score_plan \in PenaltyPlans
    /\ score_targets \in ScoreTargets
    /\ score_ret = None
    /\ penalties_a \in PenaltyChoices
    /\ penalties_b \in PenaltyChoices
    /\ score_a = None
    /\ score_b = None
    /\ api_key = TRUE
    /\ FilterIdle
    /\ FetchIdle

CalculateScoreTwice ==
    /\ score_a = None
    /\ score_a' = _calculate_score(score_plan, score_targets, WEIGHTS, penalties_a)
    /\ score_b' = _calculate_score(score_plan, score_targets, WEIGHTS, penalties_b)
    /\ UNCHANGED <<scoreVars, penalties_a, penalties_b, filterVars, fetchVars, hostVars, aiVars,
                   top_call, clock, menu_disk, engineVars, pc, loadVars, findVars, optVars>>

PenaltyNext == CalculateScoreTwice

PenaltySpec == PenaltyInit /\ [][PenaltyNext]_vars

(***************************************************************************)
(* FilterSpec: the dietary filter of find_best_meal applied to a           *)
(* collection of store items, and again to its own result.                 *)
(***************************************************************************)
\* The items the loader builds from the two courts' menus of date 1.
FilterPool ==
    Range(ParseAppearances(Appearances(RemoteMenu("Wiley", 1).meals), "Wiley").items)
    \cup Range(ParseAppearances(Appearances(RemoteMenu("Earhart", 1).meals), "Earhart").items)
FilterLists == UNION {[1..n -> FilterPool] : n \in 0..MaxListLen}
FilterKeys == {"Vegetarian", "Vegan", "No Gluten", "No Nuts", "No Eggs"}

FilterInit ==
    /\ EngineInit
    /\ api_key = TRUE
    /\ ScoreIdle
    /\ PenaltyIdle
    /\ FetchIdle
    /\ filter_items \in FilterLists
    /\ filter_flags \in SUBSET FilterKeys
    /\ filter_once = <<>>
    /\ filter_twice = <<>>
    /\ filter_runs = 0

FilterOnce ==
    /\ filter_runs = 0
    /\ filter_once' = FilteredList(filter_items, filter_flags)
    /\ filter_runs' = 1
    /\ UNCHANGED <<filter_items, filter_flags, filter_twice, scoreVars, penaltyVars,
                   fetchVars, hostVars, aiVars, top_call, clock, menu_disk, engineVars, pc,
                   loadVars, findVars, optVars>>

FilterAgain ==
    /\ filter_runs = 1
    /\ filter_twice' = FilteredList(filter_once, filter_flags)
    /\ filter_runs' = 2
    /\ UNCHANGED <<filter_items, filter_flags, filter_once, scoreVars, penaltyVars,
                   fetchVars, hostVars, aiVars, top_call, clock, menu_disk, engineVars, pc,
                   loadVars, findVars, optVars>>

FilterNext == FilterOnce \/ FilterAgain

FilterSpec == FilterInit /\ [][FilterNext]_vars

(***************************************************************************)
(* FetchSpec: one call of _fetch_ai_suggestion_from_api, attempt by        *)
(* attempt, on the store of date 1.                                        *)
(***************************************************************************)
\* master_item_list when both courts of date 1 are loaded.
FetchStore ==
    ParseAppearances(Appearances(RemoteMenu("Wiley", 1).meals), "Wiley").items
    \o ParseAppearances(Appearances(RemoteMenu("Earhart", 1).meals), "Earhart").items

FetchInit ==
    /\ EngineInit
    /\ api_key \in BOOLEAN
    /\ ScoreIdle
    /\ PenaltyIdle
    /\ FilterIdle
    /\ fetch_court \in Range(DINING_COURTS)
    /\ fetch_meal \in MEAL_PERIODS
    /\ fetch_trace = <<>>

\* The first attempt, or the retry after the sleep of the attempt before.
FetchAttempt ==
    /\ IF fetch_trace = <<>> THEN TRUE ELSE fetch_trace[Len(fetch_trace)].retry
    /\ \E o \in Attempts(FetchStore, api_key, fetch_court, fetch_meal, fetch_trace # <<>>) :
           fetch_trace' = Append(fetch_trace, o)
    /\ UNCHANGED <<fetch_court, fetch_meal, hostVars, aiVars, scoreVars, penaltyVars, filterVars,
                   top_call, clock, menu_disk, engineVars, pc, loadVars, findVars, optVars>>

FetchNext == FetchAttempt

FetchSpec == FetchInit /\ [][FetchNext]_vars

(***************************************************************************)
(* Properties of find_best_meal and the optimizer, under Spec.             *)
(***************************************************************************)
\* C1: whenever find_best_meal returns a solution (not None), its plan has at
\* least MIN_ITEMS (2) and at most MAX_ITEMS (5) items and its score is
\* finite: no empty plan and no plan scored +infinity is returned.
C1_PlanSizeAndFiniteScore ==
    find_ret # None =>
        /\ Len(find_ret.plan) >= MIN_ITEMS
        /\ Len(find_ret.plan) <= MAX_ITEMS
        /\ find_ret.score # Inf

\* A returned plan of MAX_ITEMS items.
C1_Witness == find_ret # None /\ Len(find_ret.plan) = MAX_ITEMS

\* C2: a pool of fewer than MIN_ITEMS items makes _run_optimization_for_court
\* return None with score +infinity without running an iteration, and no run
\* returns a single-item solution.
C2_SmallPoolNoSolution ==
    /\ \A i \in DOMAIN visited :
          /\ visited[i].pool < MIN_ITEMS =>
                /\ visited[i].solution = None
                /\ visited[i].score = Inf
                /\ visited[i].rounds = 0
          /\ visited[i].solution # None => Len(visited[i].solution) # 1
    /\ pc["Request"] = "opt_iter" => Len(available_items) >= MIN_ITEMS

\* A run on a pool of one item has returned.
C2_Witness == \E i \in DOMAIN visited : visited[i].pool = 1

\* The rule of each of the five dietary restrictions: TRUE when the item's
\* traits fail it.
FailsRestriction(item, restriction) ==
    CASE restriction = "Vegetarian" -> "Vegetarian" \notin item.traits
      [] restriction = "Vegan" -> "Vegan" \notin item.traits
      [] restriction = "No Gluten" -> "Contains Gluten" \in item.traits
      [] restriction = "No Nuts" -> "Tree Nuts" \in item.traits \/ "Peanuts" \in item.traits
      [] restriction = "No Eggs" -> "Eggs" \in item.traits
      [] OTHER -> FALSE

\* C3: for each of the five dietary restrictions (vegetarian, vegan,
\* gluten-free, nut-free, egg-free) active in the request, no item of the
\* returned plan fails the restriction's rule.  The engine's filter has no
\* rule for "No Nuts" and "No Eggs", and this does not hold.
C3_FiveRestrictionsHonoured ==
    find_ret # None =>
        \A i \in DOMAIN find_ret.plan : \A r \in request.dietary_filters :
            ~FailsRestriction(find_ret.plan[i], r)

\* C4: every item of the returned plan is of the court named in the result,
\* has a meal period among the requested ones and a name that is not in the
\* exclusion list.
C4_PlanWithinCourtPeriodsExclusions ==
    find_ret # None =>
        \A i \in DOMAIN find_ret.plan :
            /\ find_ret.plan[i].court = find_ret.court
            /\ find_ret.plan[i].meal_name \in request.meal_periods_to_check
            /\ find_ret.plan[i].name \notin request.exclusion_list

\* A plan returned for a request that excludes a name, with two courts run.
C4_Witness ==
    find_ret # None /\ request.exclusion_list # {} /\ Len(visited) = 2

\* The courts with at least one item that passes the request's filters.
EligibleCourts ==
    {c \in Range(DINING_COURTS) :
        \E i \in DOMAIN master_item_list :
            /\ master_item_list[i].court = c
            /\ PassesFilter(master_item_list[i], request.dietary_filters)
            /\ master_item_list[i].name \notin request.exclusion_list
            /\ master_item_list[i].meal_name \in request.meal_periods_to_check}

\* C5: with the store loaded, find_best_meal returns None if and only if no
\* eligible court's optimizer run yields a finite-score solution; otherwise
\* it returns a solution of a court whose run was finite, also when another
\* court has fewer than MIN_ITEMS matching items.
C5_NotFoundIffNoFiniteRun ==
    (pc["Request"] = "find_returned" /\ find_loaded) =>
        /\ {visited[i].court : i \in DOMAIN visited} = EligibleCourts
        /\ (find_ret = None) <=> (\A i \in DOMAIN visited : visited[i].score = Inf)
        /\ find_ret # None =>
              \E i \in DOMAIN visited :
                  visited[i].score # Inf /\ visited[i].court = find_ret.court

\* A solution returned although one court's pool was below MIN_ITEMS.
C5_Witness ==
    /\ pc["Request"] = "find_returned"
    /\ find_ret # None
    /\ \E i \in DOMAIN visited : visited[i].pool < MIN_ITEMS

\* C6: the returned solution's score is not above the score of any court's
\* optimizer run of the call, and among the runs with that score the court
\* visited first is the one returned.
C6_BestScoreFirstVisitedWins ==
    (pc["Request"] = "find_returned" /\ find_ret # None) =>
        /\ \A i \in DOMAIN visited :
              visited[i].score = Inf \/ find_ret.score <= visited[i].score
        /\ \E i \in DOMAIN visited :
              /\ visited[i].score = find_ret.score
              /\ \A j \in 1..(i - 1) : visited[j].score # find_ret.score
              /\ visited[i].court = find_ret.court
              /\ visited[i].solution = find_ret.plan

\* Two courts tied on a finite score.
C6_Witness ==
    /\ pc["Request"] = "find_returned"
    /\ find_ret # None
    /\ Len(visited) = 2
    /\ visited[1].score = visited[2].score

(***************************************************************************)
(* The loaded flag, under GateSpec.                                        *)
(***************************************************************************)
\* C7: data_loaded gates every operation that depends on the item store:
\* while it is false find_best_meal returns None, and get_top_protein_foods
\* computes no result from the partially filled store.  The second part does
\* not hold: get_top_protein_foods never reads the flag.
C7_LoadedFlagGatesAll ==
    /\ (pc["Request"] = "find_returned" /\ ~find_loaded) => find_ret = None
    /\ ~(top_call.called /\ ~top_call.loaded /\ top_call.ret # <<>>)

(***************************************************************************)
(* Properties of _calculate_score, under ScoreSpec.                        *)
(***************************************************************************)
\* The sum of one macro over a plan, item by item.
PlanSum(plan, macro) ==
    LET s[i \in 0..Len(plan)] == IF i = 0 THEN 0 ELSE s[i - 1] + plan[i][macro]
    IN s[Len(plan)]

\* C8: _calculate_score returns +infinity, with empty totals, if and only if
\* the plan is empty; a non-empty plan gets a finite score that is not
\* negative.
C8_InfiniteIffEmpty ==
    score_ret # None =>
        /\ (score_ret.score = Inf) <=> (score_plan = <<>>)
        /\ score_plan = <<>> => score_ret.totals = EmptyDict
        /\ score_plan # <<>> => score_ret.score >= 0

\* The empty plan has been scored.
C8_Witness == score_ret # None /\ score_plan = <<>> /\ score_ret.score = Inf

\* C9: a non-empty plan, of one item or several, whose summed protein,
\* carbohydrate and fat equal the targets gets score 0 and totals equal to
\* the targets.
C9_ExactMatchScoresZero ==
    (/\ score_ret # None
     /\ score_plan # <<>>
     /\ \A m \in {"p", "c", "f"} : PlanSum(score_plan, m) = score_targets[m]) =>
        /\ score_ret.score = 0
        /\ score_ret.totals = score_targets

\* A plan of several items that matches the targets has been scored.
C9_Witness ==
    /\ score_ret # None
    /\ Len(score_plan) > 1
    /\ \A m \in {"p", "c", "f"} : PlanSum(score_plan, m) = score_targets[m]

\* C10: a non-empty plan whose protein total is below the protein target, or
\* whose carbohydrate total is above the carbohydrate target, gets a score
\* above 0 under the configured weights and penalties.
C10_DeficitOrExcessScoresPositive ==
    (/\ score_ret # None
     /\ score_plan # <<>>
     /\ \/ PlanSum(score_plan, "p") < score_targets.p
        \/ PlanSum(score_plan, "c") > score_targets.c) =>
        score_ret.score > 0

\* A plan scored whose only deviation is a protein deficit.
C10_Witness ==
    /\ score_ret # None
    /\ score_plan # <<>>
    /\ PlanSum(score_plan, "p") < score_targets.p
    /\ PlanSum(score_plan, "c") = score_targets.c
    /\ PlanSum(score_plan, "f") = score_targets.f

(***************************************************************************)
(* Properties of the penalties of _calculate_score, under PenaltySpec.     *)
(***************************************************************************)
\* penalties_a and penalties_b agree on every multiplier but k.
DifferOnlyIn(k) ==
    \A j \in DOMAIN penalties_a : j # k => penalties_a[j] = penalties_b[j]

\* C11: for a non-empty plan with a protein deficit, with plan, targets,
\* weights and the other penalties fixed, the score strictly increases when
\* the under-protein multiplier increases.
C11_DeficitScoreIncreasesWithPenalty ==
    (/\ score_a # None
     /\ score_plan # <<>>
     /\ PlanSum(score_plan, "p") < score_targets.p
     /\ DifferOnlyIn("under_p")
     /\ penalties_a.under_p < penalties_b.under_p) =>
        score_a.score < score_b.score

\* A deficit plan scored with two under-protein multipliers.
C11_Witness ==
    /\ score_a # None
    /\ score_plan # <<>>
    /\ PlanSum(score_plan, "p") < score_targets.p
    /\ DifferOnlyIn("under_p")
    /\ penalties_a.under_p < penalties_b.under_p

\* C12: the penalties are asymmetric.  The under-protein multiplier changes
\* the score only when the protein total is below target, the over-carb and
\* over-fat multipliers only when their total is above target; with a
\* protein surplus, a carb deficit and a fat deficit the score does not
\* depend on any of the three.
C12_PenaltiesAsymmetric ==
    (score_a # None /\ score_plan # <<>>) =>
        /\ (DifferOnlyIn("under_p") /\ PlanSum(score_plan, "p") >= score_targets.p)
              => score_a = score_b
        /\ (DifferOnlyIn("over_c") /\ PlanSum(score_plan, "c") <= score_targets.c)
              => score_a = score_b
        /\ (DifferOnlyIn("over_f") /\ PlanSum(score_plan, "f") <= score_targets.f)
              => score_a = score_b
        /\ (/\ PlanSum(score_plan, "p") > score_targets.p
            /\ PlanSum(score_plan, "c") < score_targets.c
            /\ PlanSum(score_plan, "f") < score_targets.f) => score_a = score_b

\* A plan with a protein surplus, a carb deficit and a fat deficit, scored
\* with penalties that differ in all three multipliers.
C12_Witness ==
    /\ score_a # None
    /\ PlanSum(score_plan, "p") > score_targets.p
    /\ PlanSum(score_plan, "c") < score_targets.c
    /\ PlanSum(score_plan, "f") < score_targets.f
    /\ \A k \in DOMAIN penalties_a : penalties_a[k] # penalties_b[k]

(***************************************************************************)
(* The dietary filter, under FilterSpec.                                   *)
(***************************************************************************)
\* C13: the dietary filter is idempotent: a second pass with the same active
\* filters over an already filtered collection leaves it as it is.
C13_FilterIdempotent == filter_runs = 2 => filter_twice = filter_once

\* Two passes done on a collection from which the first pass dropped two items.
C13_Witness ==
    /\ filter_runs = 2
    /\ Len(filter_items) = 2
    /\ filter_once = <<>>

(***************************************************************************)
(* The retry of _fetch_ai_suggestion_from_api, under FetchSpec.            *)
(***************************************************************************)
\* C16: one fetch makes at most two remote calls.  A rate limit on the first
\* call is followed by one retry after a delay within RETRY_DELAY_MIN and
\* RETRY_DELAY_MAX, a rate limit on the retry is not retried, and an error
\* that is not a rate limit is never retried.
C16_AtMostOneRetry ==
    /\ Len(fetch_trace) <= 2
    /\ Cardinality({i \in DOMAIN fetch_trace : fetch_trace[i].called}) <= 2
    /\ \A i \in DOMAIN fetch_trace :
          /\ fetch_trace[i].retry <=> (i = 1 /\ fetch_trace[i].answer = "rate_limit")
          /\ fetch_trace[i].retry =>
                /\ fetch_trace[i].delay >= RETRY_DELAY_MIN
                /\ fetch_trace[i].delay <= RETRY_DELAY_MAX
          /\ i = 2 => fetch_trace[1].retry

\* A rate limit on the first call and again on the retry.
C16_Witness ==
    /\ Len(fetch_trace) = 2
    /\ fetch_trace[1].answer = "rate_limit"
    /\ fetch_trace[2].answer = "rate_limit"
    /\ fetch_trace[2].result = SuggestionFailed

(***************************************************************************)
(* The AI suggestion cache.                                                *)
(***************************************************************************)
\* C14: once a get_ai_suggestion call has stored its result under a key, a
\* later call with that key on the same date finds the key in the cache and
\* returns the entry without a remote call, whatever the preloader, its
\* workers and other lookups did in between.
C14_SecondLookupHits ==
    ai_call.checked /\ ai_call.after_completed
        => /\ ai_call.hit
           /\ ai_call.calls = 0
           /\ ai_call.returned
           /\ ai_call.ret # None
           /\ pc["Request"] = "ai_returned"

\* A second lookup of a key has returned while the preloader's sweep runs.
C14_Witness ==
    /\ ai_call.after_completed
    /\ ai_call.returned
    /\ ai_call.hit
    /\ pc["AIPreloader"] = "pre_sweep"

\* The answers of the remote call after which the fetch gives up: a rate
\* limit on the retry, another exception, a response that is not JSON.
FailedAnswers == {"rate_limit", "failure", "text"}
IsError(entry) == "error" \in DOMAIN entry

C17_NoEntryOfPreviousDate ==
    ai_call.returned /\ ai_call.hit => ai_call.cached_on = ai_call.date

\* C18: no lookup reads the cache while another thread holds the cache lock.
C18_LookupExcludedByLock ==
    lock_breach # None => lock_breach.lock = "free"

\* C19: while the executor runs the sweep, every missing pair has an entry,
\* and a lookup of such a pair made during the sweep finds the placeholder or
\* a finished result.
C19_PlaceholdersBeforeSweep ==
    /\ pc["AIPreloader"] = "pre_sweep"
          => \A job \in missing_jobs : job \in DOMAIN ai_suggestions_cache
    /\ (\E job \in DOMAIN tasks : tasks[job] # Queued)
          => pc["AIPreloader"] \in {"pre_sweep", "done"}
    /\ ai_call.checked /\ ai_call.in_sweep
          => /\ ai_call.hit
             /\ \/ ai_call.ret = Loading
                \/ "plan" \in DOMAIN ai_call.ret
                \/ IsError(ai_call.ret)

\* A lookup made during the sweep has returned the placeholder.
C19_Witness ==
    /\ ai_call.in_sweep
    /\ ai_call.returned
    /\ ai_call.ret = Loading

\* A cache entry that is a finished suggestion or an error result.
IsCompleted(entry) == "plan" \in DOMAIN entry \/ "error" \in DOMAIN entry
\* The (court, meal) pairs present in the store.
StorePairs ==
    {<<master_item_list[i].court, master_item_list[i].meal_name>> :
        i \in DOMAIN master_item_list}
SweepCompleted ==
    /\ pc["AIPreloader"] = "done"
    /\ \A pair \in StorePairs :
          /\ pair \in DOMAIN ai_suggestions_cache
          /\ IsCompleted(ai_suggestions_cache[pair])

C21_MissIsPersisted ==
    (ai_call.returned /\ ai_call.checked /\ ~ai_call.hit) =>
        /\ ai_cache_file \in ai_files
        /\ ai_call.key \in DOMAIN CacheOfJson(ai_disk[ai_cache_file])
        /\ CacheOfJson(ai_disk[ai_cache_file])[ai_call.key] = ai_call.ret

(***************************************************************************)
(* GetEngineSpec: app.py's get_engine called by NumCallers request threads *)
(* at any time, from the start of the process (no engine yet).  The        *)
(* engine's own state is left alone: cleanup_old_caches, MealFinder() and  *)
(* start_background_loaders() are taken to return.                         *)
(***************************************************************************)
engineSide == <<top_call, scoreVars, pureVars, api_key, remote_shapes, label_str,
                numeric_ret, ensure_call, aiVars, clock, menu_disk, engineVars, pc,
                loadVars, findVars, optVars>>

GetEngineInit ==
    /\ EngineStart
    /\ menu_disk = [d \in Dates |-> EmptyDict]
    /\ remote_shapes = {WellFormed}
    /\ NumericIdle
    /\ meal_finder_engine = NoEngine
    /\ engine_lock = Unlocked
    /\ caller_pc = [c \in Callers |-> "idle"]
    /\ caller_ret = [c \in Callers |-> NoEngine]
    /\ constructed = 0
    /\ started = 0
    /\ api_key = TRUE
    /\ ScoreIdle
    /\ PenaltyIdle
    /\ FilterIdle
    /\ FetchIdle

\* Variant: the check under the lock is skipped.
EngineIsSetSkipped(engine) == FALSE

\* app.py line 74: "if meal_finder_engine" inside "with engine_lock".
EngineIsSet(engine) == engine # NoEngine

\* A request thread calls get_engine (again).
GetEngineCall(c) ==
    /\ caller_pc[c] \in {"idle", "returned"}
    /\ caller_pc' = [caller_pc EXCEPT ![c] = "fast_check"]
    /\ caller_ret' = [caller_ret EXCEPT ![c] = NoEngine]
    /\ UNCHANGED <<engineSide, meal_finder_engine, engine_lock, constructed, started>>

\* app.py lines 70-71: the check outside the lock.
GetEngineFastCheck(c) ==
    /\ caller_pc[c] = "fast_check"
    /\ IF meal_finder_engine # NoEngine
       THEN /\ caller_ret' = [caller_ret EXCEPT ![c] = meal_finder_engine]
            /\ caller_pc' = [caller_pc EXCEPT ![c] = "returned"]
       ELSE /\ caller_pc' = [caller_pc EXCEPT ![c] = "acquire"]
            /\ UNCHANGED caller_ret
    /\ UNCHANGED <<engineSide, meal_finder_engine, engine_lock, constructed, started>>

\* app.py line 73: with engine_lock.
GetEngineAcquire(c) ==
    /\ caller_pc[c] = "acquire"
    /\ engine_lock = Unlocked
    /\ engine_lock' = c
    /\ caller_pc' = [caller_pc EXCEPT ![c] = "locked_check"]
    /\ UNCHANGED <<engineSide, meal_finder_engine, caller_ret, constructed, started>>

\* app.py lines 74-75: the check under the lock; the return releases it.
GetEngineLockedCheck(c) ==
    /\ caller_pc[c] = "locked_check"
    /\ IF EngineIsSet(meal_finder_engine)
       THEN /\ caller_ret' = [caller_ret EXCEPT ![c] = meal_finder_engine]
            /\ caller_pc' = [caller_pc EXCEPT ![c] = "returned"]
            /\ engine_lock' = Unlocked
       ELSE /\ caller_pc' = [caller_pc EXCEPT ![c] = "construct"]
            /\ UNCHANGED <<caller_ret, engine_lock>>
    /\ UNCHANGED <<engineSide, meal_finder_engine, constructed, started>>

\* app.py lines 78-80: cleanup_old_caches(); meal_finder_engine = MealFinder().
GetEngineConstruct(c) ==
    /\ caller_pc[c] = "construct"
    /\ constructed' = constructed + 1
    /\ meal_finder_engine' = constructed'
    /\ caller_pc' = [caller_pc EXCEPT ![c] = "start"]
    /\ UNCHANGED <<engineSide, engine_lock, caller_ret, started>>

\* app.py lines 83-86: start_background_loaders(), the return, the release.
GetEngineStart(c) ==
    /\ caller_pc[c] = "start"
    /\ started' = started + 1
    /\ caller_ret' = [caller_ret EXCEPT ![c] = meal_finder_engine]
    /\ caller_pc' = [caller_pc EXCEPT ![c] = "returned"]
    /\ engine_lock' = Unlocked
    /\ UNCHANGED <<engineSide, meal_finder_engine, constructed>>

GetEngineNext ==
    \/ \E c \in Callers : GetEngineCall(c)
    \/ \E c \in Callers : GetEngineFastCheck(c)
    \/ \E c \in Callers : GetEngineAcquire(c)
    \/ \E c \in Callers : GetEngineLockedCheck(c)
    \/ \E c \in Callers : GetEngineConstruct(c)
    \/ \E c \in Callers : GetEngineStart(c)

GetEngineSpec == GetEngineInit /\ [][GetEngineNext]_vars

\* C22: however the calls of get_engine interleave, MealFinder() is
\* constructed at most once and start_background_loaders() is called at most
\* once; every caller that has returned holds the one constructed engine, and
\* once a caller has returned the engine was constructed exactly once.  Its
\* loaders were started exactly once as soon as a caller that went through
\* the lock has returned.
C22_OneEngine ==
    /\ constructed <= 1
    /\ started <= 1
    /\ started <= constructed
    /\ \A c \in Callers : caller_pc[c] = "returned" =>
           /\ constructed = 1
           /\ caller_ret[c] = 1
           /\ meal_finder_engine = 1
    /\ (engine_lock = Unlocked /\ meal_finder_engine # NoEngine) => started = 1

\* Two first callers raced: one constructed the engine, started its loaders
\* and returned; another, which had passed the unlocked check before the
\* engine was set, now holds the lock in front of the locked check.
C22_Witness ==
    \E c \in Callers : \E d \in Callers \ {c} :
        /\ caller_pc[c] = "locked_check"
        /\ caller_pc[d] = "returned"
        /\ caller_ret[d] = meal_finder_engine
        /\ constructed = 1
        /\ started = 1

(***************************************************************************)
(* The menu load                                                           *)
(***************************************************************************)
\* The items of the store that are of one court, in store order.
ItemsOfCourt(court) == SelectSeq(master_item_list, LAMBDA item : item.court = court)

\* C23: a court whose remote call timed out or raised a request error does
\* not end the load: the loader never raises, and when it is done the store
\* is marked loaded, holds no item of a failed court, holds the parsed items
\* of every other court and is indexed by court and by meal.
C23_FailedCourtContributesNothing ==
    /\ pc["MenuLoader"] # "raised"
    /\ pc["MenuLoader"] = "done" =>
          /\ data_loaded
          /\ \A i \in DOMAIN DINING_COURTS :
                LET court == DINING_COURTS[i] IN
                IF court \in DOMAIN fetched["MenuLoader"]
                THEN ItemsOfCourt(court) =
                         ParseMeals(RemoteMenu(court, todays_date).meals, court).items
                ELSE ItemsOfCourt(court) = <<>>
          /\ items_by_court = IndexBy(master_item_list, "court")
          /\ items_by_meal = IndexBy(master_item_list, "meal_name")

\* The load is done after the call for Wiley failed and the one for Earhart
\* succeeded: the store holds Earhart's items only.
C23_Witness ==
    /\ pc["MenuLoader"] = "done"
    /\ DOMAIN fetched["MenuLoader"] = {"Earhart"}
    /\ data_loaded
    /\ master_item_list # <<>>
    /\ \A i \in DOMAIN master_item_list : master_item_list[i].court = "Earhart"

\* C25: the item store never holds an item whose protein, carbohydrate and
\* fat are all zero.
C25_NoAllZeroItem ==
    \A i \in DOMAIN master_item_list :
        LET item == master_item_list[i] IN ~(item.p = 0 /\ item.c = 0 /\ item.f = 0)

\* Wiley's payload, which lists Water (0 g, 0 g, no fat label), was fetched
\* and parsed: the store holds Wiley's other lunch items and no Water.
C25_Witness ==
    /\ pc["MenuLoader"] = "done"
    /\ "Wiley" \in DOMAIN fetched["MenuLoader"]
    /\ \E i \in DOMAIN master_item_list : master_item_list[i].name = "Pasta"
    /\ \A i \in DOMAIN master_item_list : master_item_list[i].name # "Water"

(***************************************************************************)
(* PayloadSpec: the menu load of date 1 with no cache file, against a      *)
(* source whose answer for a court is a payload of any of PayloadShapes,   *)
(* or a failed call.                                                       *)
(***************************************************************************)
PayloadInit ==
    /\ EngineStart
    /\ menu_disk = [d \in Dates |-> EmptyDict]
    /\ remote_shapes = PayloadShapes
    /\ AppLive
    /\ NumericIdle
    /\ api_key = TRUE
    /\ ScoreIdle
    /\ PenaltyIdle
    /\ FilterIdle
    /\ FetchIdle

PayloadNext == LoadStep

PayloadSpec == PayloadInit /\ [][PayloadNext]_vars

\* C24: a malformed payload for one court (missing meals, stations, a fact
\* name or a display name, or a label that is no number) costs that court or
\* item only: no exception leaves the load, which runs to its end and marks
\* the store loaded.  (Violated: the parse loop has no handler, and a missing
\* key or an unparsable label ends the load with data_loaded false.)
C24_MalformedPayloadDegrades ==
    /\ pc["MenuLoader"] # "raised"
    /\ pc["MenuLoader"] = "done" => data_loaded

(***************************************************************************)
(* LoadSpec: the menu loader thread and a second thread that calls         *)
(* _load_all_menu_data and _ensure_current_date directly, at any time,     *)
(* while the calendar date advances.  The engine starts on date 1 with no  *)
(* menu cache file, or with one that an earlier run saved with Wiley's     *)
(* payload only or with both courts' payloads.                             *)
(***************************************************************************)
SavedSnapshots ==
    {EmptyDict,
     [c \in {"Wiley"} |-> RemoteMenu(c, 1)],
     [c \in Range(DINING_COURTS) |-> RemoteMenu(c, 1)]}

LoadInit ==
    /\ EngineStart
    /\ \E snapshot \in SavedSnapshots :
          menu_disk = [d \in Dates |-> IF d = 1 THEN snapshot ELSE EmptyDict]
    /\ remote_shapes = {WellFormed}
    /\ AppLive
    /\ NumericIdle
    /\ api_key = TRUE
    /\ ScoreIdle
    /\ PenaltyIdle
    /\ FilterIdle
    /\ FetchIdle

\* The second thread calls _load_all_menu_data.
CallerLoad ==
    /\ pc["Caller"] \in {"idle", "load_returned"}
    /\ pc' = [pc EXCEPT !["Caller"] = "load_begin"]
    /\ UNCHANGED <<auxVars, clock, menu_disk, engineVars, loadVars, findVars, optVars>>

\* The second thread calls _ensure_current_date (lines 59-72); ensure_call
\* keeps the engine's date-dependent state as the call found it, the date of
\* the clock and the value returned.
EnsureCall ==
    /\ pc["Caller"] \in {"idle", "load_returned"}
    /\ EnsureCurrentDate
    /\ ensure_call' =
          [called |-> TRUE, ret |-> DateIsStale, now |-> clock,
           before |-> [todays_date |-> todays_date, cache_file |-> cache_file,
                       ai_cache_file |-> ai_cache_file,
                       master_item_list |-> master_item_list,
                       data_loaded |-> data_loaded]]
    /\ UNCHANGED <<top_call, scoreVars, pureVars, api_key, remote_shapes, label_str,
                   numeric_ret, appVars, aiVars, clock, menu_disk, pc, loadVars, findVars,
                   optVars>>

LoadNext ==
    \/ Tick
    \/ LoadStep
    \/ CallerLoad
    \/ EnsureCall

LoadSpec == LoadInit /\ [][LoadNext]_vars

\* C26: a load that runs to its end rewrites the menu cache file if and only
\* if at least one court's payload was freshly fetched in it; the file then
\* holds the load's payloads, and otherwise no file changes.  A load that
\* returns early writes nothing.
C26_SavedIffFetched ==
    [][\A t \in Threads :
          /\ LoadFinish(t) =>
                /\ menu_saved'[t] <=> (DOMAIN fetched[t] # {})
                /\ IF DOMAIN fetched[t] # {}
                   THEN menu_disk' = [menu_disk EXCEPT ![cache_file] = cached_data[t]]
                   ELSE menu_disk' = menu_disk
          /\ (LoadBegin(t) \/ LoadCourt(t)) => menu_disk' = menu_disk]_vars

\* A load has ended without a write: both courts came from the cache file.
\* Another has ended with one: it fetched the court the file lacked.
C26_Witness ==
    /\ pc["MenuLoader"] = "done"
    /\ ~menu_saved["MenuLoader"]
    /\ DOMAIN cached_data["MenuLoader"] = Range(DINING_COURTS)
    /\ pc["Caller"] = "load_returned"
    /\ menu_saved["Caller"]
    /\ DOMAIN fetched["Caller"] # {}

\* The courts, in the order of DINING_COURTS, that are not in a snapshot.
CourtsNotIn(snapshot) == SelectSeq(DINING_COURTS, LAMBDA c : c \notin DOMAIN snapshot)

\* C27: a load that finds the store loaded for the current date makes no
\* remote call; any other load makes no call for a court whose payload is in
\* the date's cache file and exactly one call for every other court.
C27_OneCallPerUncachedCourt ==
    [][\A t \in Threads :
          LoadBegin(t) =>
              IF data_loaded /\ todays_date = clock
              THEN menu_calls'[t] = <<>>
              ELSE menu_calls'[t] = CourtsNotIn(menu_disk[clock])]_vars

\* A load is under way that read Wiley's payload from the cache file and
\* called the source for Earhart only, while the other thread's call after
\* the store was loaded has returned without a remote call.
C27_Witness ==
    /\ pc["MenuLoader"] = "done"
    /\ DOMAIN menu_disk[1] = {"Wiley"}
    /\ menu_calls["MenuLoader"] = <<"Earhart">>
    /\ data_loaded
    /\ todays_date = 1
    /\ pc["Caller"] = "load_returned"
    /\ menu_calls["Caller"] = <<>>

\* C30: a call of _ensure_current_date that finds todays_date equal to the
\* current date returns False and leaves the date, both cache file names, the
\* store, the loaded flag and the indices as they are; a call that finds them
\* different returns True, sets the date and both cache file names to the
\* current date, empties the store and the indices and clears the flag.
C30_EnsureCurrentDate ==
    [][EnsureCall =>
          IF todays_date = clock
          THEN /\ ensure_call'.ret = FALSE
               /\ UNCHANGED engineVars
          ELSE /\ ensure_call'.ret = TRUE
               /\ todays_date' = clock
               /\ cache_file' = clock
               /\ ai_cache_file' = clock
               /\ master_item_list' = <<>>
               /\ data_loaded' = FALSE
               /\ items_by_court' = EmptyDict
               /\ items_by_meal' = EmptyDict]_vars

\* A call on date 2 found the loaded store of date 1 and returned True; the
\* store is empty and not loaded, and the cache files are those of date 2.
C30_Witness ==
    /\ ensure_call.called
    /\ ensure_call.ret
    /\ ensure_call.before.data_loaded
    /\ ensure_call.before.master_item_list # <<>>
    /\ ensure_call.before.cache_file # cache_file
    /\ master_item_list = <<>>
    /\ ~data_loaded
    /\ cache_file = clock

(***************************************************************************)
(* NumericSpec: one call of _get_numeric_value on None, on the labels of   *)
(* the tests, and on every string of at most MaxLabelLen characters of     *)
(* LabelChars in which no dot is followed by two digits.                   *)
(***************************************************************************)
LabelChars == {"1", "5", ".", "g", "N"}
TestLabels == {<<"1", "5", "g">>, <<"2", "0", ".", "5", "g">>, <<"N", "/", "A">>}
Labels ==
    {l \in UNION {[1..n -> LabelChars] : n \in 0..MaxLabelLen} :
        \A i \in 1..(Len(l) - 2) :
            ~(l[i] = "." /\ l[i + 1] \in Digits /\ l[i + 2] \in Digits)}
    \cup TestLabels

NumericInit ==
    /\ EngineStart
    /\ menu_disk = [d \in Dates |-> EmptyDict]
    /\ remote_shapes = {WellFormed}
    /\ AppLive
    /\ label_str \in Labels
    /\ numeric_ret = None
    /\ api_key = TRUE
    /\ ScoreIdle
    /\ PenaltyIdle
    /\ FilterIdle
    /\ FetchIdle

GetNumericValue ==
    /\ numeric_ret = None
    /\ numeric_ret' = [value |-> _get_numeric_value(label_str)]
    /\ UNCHANGED <<top_call, scoreVars, pureVars, api_key, remote_shapes, label_str,
                   ensure_call, appVars, aiVars, clock, menu_disk, engineVars, pc, loadVars,
                   findVars, optVars>>

NumericNext == GetNumericValue

NumericSpec == NumericInit /\ [][NumericNext]_vars

\* C28: _get_numeric_value returns a number for every label and never
\* raises: 15.0 for "15g", 20.5 for "20.5g", and 0.0 for an empty label, for
\* "N/A" and for a label whose run of digits and dots is no number.
\* (Violated: float() raises ValueError on such a run.)
C28_AlwaysANumber ==
    numeric_ret # None =>
        /\ numeric_ret.value # ValueError
        /\ label_str = <<"1", "5", "g">> => numeric_ret.value = 150
        /\ label_str = <<"2", "0", ".", "5", "g">> => numeric_ret.value = 205
        /\ (label_str = <<>> \/ label_str = <<"N", "/", "A">>) => numeric_ret.value = 0

(***************************************************************************)
(* TopSpec: get_top_protein_foods called once on a loaded store of at most *)
(* MaxStoreLen items of TopPool, with a count of TopSpecCounts.  The pool  *)
(* has three of the parsed items of Wiley's menu of date 1 (Tofu, Chicken  *)
(* and Steak) and the one of Earhart's menu of date 2 (Chicken again, of   *)
(* another court).                                                         *)
(***************************************************************************)
TopPool ==
    {item \in Range(ParsePayload(RemoteMenu("Wiley", 1), "Wiley").items) :
        item.name \in {"Chicken", "Steak", "Tofu"}}
    \cup Range(ParsePayload(RemoteMenu("Earhart", 2), "Earhart").items)
TopStores == UNION {[1..n -> TopPool] : n \in 0..MaxStoreLen}
TopSpecCounts == {0, 1, 10, 25}

TopInit ==
    /\ EngineBesidesStore
    /\ \E store \in TopStores :
          /\ master_item_list = store
          /\ items_by_court = IndexBy(store, "court")
          /\ items_by_meal = IndexBy(store, "meal_name")
    /\ data_loaded = TRUE
    /\ menu_disk = [d \in Dates |-> EmptyDict]
    /\ remote_shapes = {WellFormed}
    /\ AppLive
    /\ NumericIdle
    /\ api_key = TRUE
    /\ ScoreIdle
    /\ PenaltyIdle
    /\ FilterIdle
    /\ FetchIdle

TopNext == \E count \in TopSpecCounts : ~top_call.called /\ GetTopProteinFoods(count)

TopSpec == TopInit /\ [][TopNext]_vars

\* C29: get_top_protein_foods(count) returns at most count foods, each of
\* more than 50 calories (4p + 4c + 9f) and more than 5 g of protein, in
\* order of non-increasing protein per calorie, with no (name, p, c, f)
\* twice; on an empty store it returns the empty list.
C29_TopProteinFoods ==
    top_call.called =>
        LET ret == top_call.ret IN
        /\ Len(ret) <= top_call.count
        /\ \A i \in DOMAIN ret :
              /\ 4 * ret[i].p + 4 * ret[i].c + 9 * ret[i].f > 500
              /\ ret[i].p > 50
              /\ \E k \in DOMAIN master_item_list : master_item_list[k] = ret[i]
        /\ \A i, j \in DOMAIN ret :
              i < j =>
                 /\ ret[i].p * Calories(ret[j]) >= ret[j].p * Calories(ret[i])
                 /\ <<ret[i].name, ret[i].p, ret[i].c, ret[i].f>>
                        # <<ret[j].name, ret[j].p, ret[j].c, ret[j].f>>
        /\ master_item_list = <<>> => ret = <<>>

\* A call with count 10 on a store that holds Chicken of both courts and
\* Steak returned two foods, Chicken before Steak.
C29_Witness ==
    /\ top_call.called
    /\ top_call.count = 10
    /\ Len(master_item_list) = 3
    /\ \E i, j \in DOMAIN master_item_list :
          /\ master_item_list[i].name = "Chicken"
          /\ master_item_list[j].name = "Chicken"
          /\ master_item_list[i].court # master_item_list[j].court
    /\ Len(top_call.ret) = 2
    /\ top_call.ret[1].name = "Chicken"
    /\ top_call.ret[2].name = "Steak"

(***************************************************************************)
(* CoolSpec: the control of the annealing loop of one optimizer run on a   *)
(* pool of at least MIN_ITEMS items, with the code's budget of ITERATIONS  *)
(* rounds.  Lines 549-577 of a round assign neither temp nor the loop      *)
(* counter and have no loop of their own (every random choice is over a    *)
(* non-empty list), so a round is followed here by what it does to temp    *)
(* and iter; what it does to the solutions is OptIterate.  A thread that   *)
(* can take a step takes one.                                              *)
(***************************************************************************)
\* Lines 536-543: the run starts.
AnnealEnter ==
    /\ pc["Request"] = "idle"
    /\ temp' = INITIAL_TEMP * TempScale
    /\ iter' = 0
    /\ pc' = [pc EXCEPT !["Request"] = "anneal"]
    /\ UNCHANGED <<auxVars, clock, menu_disk, engineVars, loadVars, findVars, run_court,
                   available_items, current_solution, best_solution, best_score,
                   best_totals>>

\* Lines 545-547 and 579: one more round of "for _ in range(iterations)"
\* that does not break.
AnnealRound ==
    /\ pc["Request"] = "anneal"
    /\ iter < ITERATIONS
    /\ ~TempAtFloor(temp)
    /\ temp' = Cooled(temp)
    /\ iter' = iter + 1
    /\ UNCHANGED <<auxVars, clock, menu_disk, engineVars, pc, loadVars, findVars, run_court,
                   available_items, current_solution, best_solution, best_score,
                   best_totals>>

\* Lines 545-547 and 581: the range is exhausted or the loop breaks.
AnnealExit ==
    /\ pc["Request"] = "anneal"
    /\ iter >= ITERATIONS \/ TempAtFloor(temp)
    /\ pc' = [pc EXCEPT !["Request"] = "anneal_returned"]
    /\ UNCHANGED <<auxVars, clock, menu_disk, engineVars, loadVars, findVars, optVars>>

CoolNext == AnnealEnter \/ AnnealRound \/ AnnealExit

CoolFairness == WF_vars(AnnealEnter) /\ WF_vars(AnnealRound) /\ WF_vars(AnnealExit)

CoolSpec == Init /\ [][CoolNext]_vars /\ CoolFairness

\* C31: every optimizer run terminates.  The loop never runs more than
\* ITERATIONS rounds, a round is run only while the temperature is above 1,
\* and the run returns.
C31_RunTerminates ==
    /\ [](iter <= ITERATIONS)
    /\ [][iter' = iter + 1 => (iter < ITERATIONS /\ temp > TempScale)]_vars
    /\ <>(pc["Request"] = "anneal_returned")

\* A run has returned before its budget of rounds was used, because the
\* temperature reached 1.
C31_Witness ==
    /\ pc["Request"] = "anneal_returned"
    /\ iter > 0
    /\ iter < ITERATIONS
    /\ temp <= TempScale

(***************************************************************************)
(* The optimizer run, under Spec                                           *)
(***************************************************************************)
\* The score of a plan against the targets of the request.
RequestScore(plan) == _calculate_score(plan, request.targets, WEIGHTS, PENALTIES).score

\* C32: the solution an optimizer run returns is the best ever seen in the
\* run: when the loop is over, the best score is not above the score of the
\* solution that is current then, which was the initial sample or a
\* neighbor.  (Violated: the initial sample is never compared with the best,
\* so a run that keeps it, or leaves it for worse neighbors, returns a
\* neighbor that scores worse.)
C32_BestEverSeen ==
    (pc["Request"] = "opt_iter" /\ (iter >= IterBudget \/ TempAtFloor(temp))) =>
        ~ScoreLess(RequestScore(current_solution), best_score)

\* The per-macro sums over the items of a plan.
PlanTotals(plan) ==
    [p |-> PlanSum(plan, "p"), c |-> PlanSum(plan, "c"), f |-> PlanSum(plan, "f")]

\* C33: the fields of a find_best_meal result agree: totals are the sums
\* over the items of plan and score is _calculate_score of plan against the
\* targets of the request.  They agree as well for the best of a running
\* optimizer and for the best over the courts so far, which are updated
\* together.
C33_FieldsAgree ==
    /\ find_ret # None =>
          /\ find_ret.totals = PlanTotals(find_ret.plan)
          /\ find_ret.score = RequestScore(find_ret.plan)
    /\ best_solution # None =>
          /\ best_totals = PlanTotals(best_solution)
          /\ best_score = RequestScore(best_solution)
    /\ overall_best_solution # None =>
          /\ overall_best_solution.totals = PlanTotals(overall_best_solution.plan)
          /\ overall_best_solution.score = overall_best_score
          /\ overall_best_score = RequestScore(overall_best_solution.plan)

\* A result of three items or more was returned after two courts' runs each
\* found a solution.
C33_Witness ==
    /\ pc["Request"] = "find_returned"
    /\ find_ret # None
    /\ Len(find_ret.plan) >= 3
    /\ Len(visited) = 2
    /\ \A i \in DOMAIN visited : visited[i].solution # None

\* C34: the plan find_best_meal returns is a subset of the candidate pool of
\* its court with no item twice: no two slots of the plan hold the same pool
\* item.  (Violated: a swap puts any pool item into the slot, also one the
\* plan already holds.)
C34_PlanHasNoItemTwice ==
    find_ret # None =>
        /\ \A i \in DOMAIN find_ret.plan :
              \E k \in DOMAIN master_item_list : master_item_list[k] = find_ret.plan[i]
        /\ \A i, j \in DOMAIN find_ret.plan : i # j => find_ret.plan[i] # find_ret.plan[j]

\* C35: every item of the plan find_best_meal returns has the meal period of
\* the result's meal_name field, also for a request with several meal
\* periods.  (Violated: the pool of a court is not split by meal period, and
\* meal_name is the period of the plan's first item.)
C35_PlanOfOneMealPeriod ==
    find_ret # None =>
        \A i \in DOMAIN find_ret.plan : find_ret.plan[i].meal_name = find_ret.meal_name

(***************************************************************************)
(* The AI cache under concurrent lookups and the preloader, under AISpec   *)
(***************************************************************************)
\* C36: an entry of the AI cache that is a completed suggestion or an error
\* result stays one: no step replaces it by the "loading" placeholder or
\* drops its key.  (Violated: the preloader marks the pairs of a diff it
\* took in an earlier critical section, over what a lookup stored since.)
C36_CompletedEntryKept ==
    [][\A k \in DOMAIN ai_suggestions_cache :
          IsCompleted(ai_suggestions_cache[k]) =>
              /\ k \in DOMAIN ai_suggestions_cache'
              /\ IsCompleted(ai_suggestions_cache'[k])]_vars

\* C38: for a key, at most one fetch of the remote AI source is started on a
\* date: never has a lookup called the remote source for its key while the
\* preloader's worker for the same key has called it too (the worker is in
\* the sleep that follows a rate-limit answer of the source).  (Violated: a
\* lookup that missed before the preloader took its diff fetches the key,
\* and so does the worker.)
C38_OneFetchPerKey ==
    ~(/\ ai_call.calls >= 1
      /\ ai_call.key \in DOMAIN tasks
      /\ tasks[ai_call.key] = "sleep")

(***************************************************************************)
(* The item store across a date change, under RolloverSpec                 *)
(***************************************************************************)
\* The items the loader parses from the menus of a date.
ItemsOfDate(date) ==
    UNION {Range(ParsePayload(RemoteMenu(DINING_COURTS[i], date), DINING_COURTS[i]).items) :
              i \in DOMAIN DINING_COURTS}

\* C37: whenever data_loaded is true the store is the result of one
\* completed load pass for todays_date: it holds no parsed item twice, only
\* items of the menus of todays_date, and no load pass is still appending.
\* (Violated: a load pass that is under way when the date changes goes on
\* appending to the store that a second pass, started by the thread that
\* detected the change, fills as well, and the first to finish marks it
\* loaded.)
C37_StoreIsOneLoadPass ==
    data_loaded =>
        /\ \A i, j \in DOMAIN master_item_list :
              i # j => master_item_list[i] # master_item_list[j]
        /\ \A i \in DOMAIN master_item_list : master_item_list[i] \in ItemsOfDate(todays_date)
        /\ \A t \in Threads : pc[t] \notin {"load_court", "load_finish"}

(***************************************************************************)
(* find_best_meal and the shared engine state, under Spec                  *)
(***************************************************************************)
\* C39: a find_best_meal call made while the date is unchanged modifies no
\* shared engine state: each of its steps leaves the item store, the indices,
\* the loaded flag, the stored date and the AI cache as they were; a round of
\* the optimizer leaves the candidate pool as it was, and its current solution
\* is afterwards either the one before or a neighbor built from a copy of it.
C39_CallLeavesEngineState ==
    [][(/\ pc["Request"] \in {"idle", "find_returned", "find_gate", "find_court", "opt_iter"}
        /\ ~DateIsStale
        /\ \/ pc'["Request"] # pc["Request"]
           \/ findVars' # findVars
           \/ optVars' # optVars)
       => /\ UNCHANGED <<master_item_list, items_by_court, items_by_meal, data_loaded,
                         todays_date, ai_suggestions_cache>>
          /\ (pc["Request"] = "opt_iter" /\ pc'["Request"] = "opt_iter")
                => /\ available_items' = available_items
                   /\ current_solution' \in
                         {current_solution} \cup Neighbors(available_items, current_solution)]_vars

\* A call has returned a plan from a loaded store of which the dietary
\* filter dropped items, after an optimizer run of at least one round.
C39_Witness ==
    /\ pc["Request"] = "find_returned"
    /\ find_ret # None
    /\ data_loaded
    /\ FilteredList(master_item_list, request.dietary_filters) # master_item_list
    /\ \E i \in DOMAIN visited : visited[i].rounds >= 1

====
